---- MODULE Spec2Model ----
(***************************************************************************)
(* Payment-intent orchestration of the Mechinweb storefront.               *)
(*                                                                         *)
(*   Spec      EnhancedPaymentService.createPaymentIntent                   *)
(*             (src/src/lib/alternativePayments.ts): the outer retry loop,  *)
(*             the eight steps of one attempt, the inner invoicing retry    *)
(*             loop, the audit-log write and the error raised.              *)
(*   SpecZoho  the invoicing entrypoint (src/vite.config.ts, Deno.serve):   *)
(*             one POST request driving the provider calls.                 *)
(*   SpecZohoLegacy  the entrypoint as of                                   *)
(*             src/supabase/functions/zoho-integration/index.ts.            *)
(*   SpecAlt   AlternativePaymentService: the email and bank-transfer       *)
(*             channels and createPaymentWithFallback.                      *)
(*   SpecCore  one call of any entry point that writes an Order:            *)
(*             createPaymentIntent, the two channels, createDirectPayment.  *)
(*   SpecHealth  performSystemHealthCheck.                                  *)
(*   SpecResolve  resolveServiceWithFallback, query by query.               *)
(*   SpecLive  one entered call with every awaited call returning (weak      *)
(*             fairness).                                                   *)
(*   SpecConfig  createPaymentIntent when a secret of the entrypoint may be  *)
(*             absent.                                                      *)
(*   SpecLogger  ProductionLogger (src/scripts/test-payment-flow.js): log     *)
(*             and clearLogs on the in-memory buffer.                       *)
(*   SpecAmounts  calculateCurrencyAmounts with the fallback rates, applied  *)
(*             there and back.                                              *)
(*                                                                         *)
(* Money is counted in cents.  An error is a record [code, kw]: kw says     *)
(* whether its message contains one of the words "timeout", "network",      *)
(* "temporary" that isRetryableError looks for.                             *)
(***************************************************************************)
EXTENDS Integers, Sequences, FiniteSets, TLC

\* ------------------------------------------------------------------------
\* Bounds of the model
\* ------------------------------------------------------------------------
MaxQty == 2
MaxHistory == 3
MaxRequests == 2
MaxCents == 200
MaxLogged == 6
\* maxLogs is 1000 in ProductionLogger and the error logs kept in localStorage
\* are 50; the buffers are modelled with smaller bounds
maxLogs == 3
maxErrorLogs == 2

\* ------------------------------------------------------------------------
\* Program constants
\* ------------------------------------------------------------------------
MAX_RETRIES == 3

NoId == 0

Tiers == {"basic", "standard", "enterprise"}

\* Two rows of the services relation (supabase/migrations/..emerald_brook.sql):
\* "Email Migration & Setup" {basic: 4.00} and "SSL Setup" {basic: 7.00,
\* standard: 10.00, enterprise: 25.00}.  Names and categories are kept as
\* lower-cased character sequences, which is what ilike and toLowerCase compare.
Services ==
  << [id |-> <<"U", "1">>, name |-> <<"e", "m">>, category |-> <<"m", "l">>,
      pricing |-> [t \in {"basic"} |-> 400]],
     [id |-> <<"U", "2">>, name |-> <<"s", "s", "l">>, category |-> <<"s", "c">>,
      pricing |-> [t \in Tiers |->
                     CASE t = "basic" -> 700 [] t = "standard" -> 1000 [] OTHER -> 2500]] >>

\* What the caller may pass.  <<"n","w">> stands for an identifier containing
\* one of the words isRetryableError looks for; "temporary" is such a package type.
Keyword == <<"n", "w">>

Identifiers == { <<"U", "1">>, <<"s", "s", "l">>, <<"n", "w">>, <<"x">> }

\* Identifiers of the form the UUID pattern accepts; no row has <<"U", "9">>
UuidShaped == { <<"U", "1">>, <<"U", "2">>, <<"U", "9">> }

PackageTypes == {"basic", "enterprise", "temporary"}

Currencies == {"USD", "INR", "AUD"}

Totals == {800}

Sessions == {"none", "unverified", "verified"}

\* contact_id of the billing customer the provider keeps for the signed-in client
CustomerId == 7

VARIABLES
  pc,          \* position of the createPaymentIntent call
  session,     \* the identity signed in: "none", "unverified", "verified"
  args,        \* arguments of the call in progress
  attempt,     \* loop counter of createPaymentIntent
  zattempt,    \* loop counter of createZohoInvoiceWithRetry
  lastErr,     \* the error caught last
  local,       \* locals of createPaymentIntentAttempt
  orders,      \* the orders relation
  audit,       \* the purchase_audit_log relation
  zinvoices,   \* invoices that exist at the provider (each with the order it was made for)
  result,      \* what the call returned or raised
  steps,       \* history: the steps the current attempt has run, with their outcome
  zlog,        \* history: outcomes of the first MaxHistory createZohoInvoiceAttempt
               \* calls of the call
  hist         \* history: posts = POST requests sent to the invoicing entrypoint,
               \* auditWrites = audit inserts issued, tierMissing = the tier
               \* check of some attempt found the package type absent

\* State of the invoicing entrypoint (Deno.serve handler) and of the provider
VARIABLES
  secrets,     \* the provider secrets that are set in the environment
  requests,    \* per request: position of the handler, its locals, its response
  contacts,    \* the provider's contacts
  invoices     \* the provider's invoices

VARIABLES
  logs,        \* ProductionLogger.logs, the in-memory buffer
  errorLogs,   \* the item mechinweb_error_logs of localStorage
  logged       \* history: every entry logged so far, in the order of logging

zvars == <<secrets, requests, contacts, invoices>>

lvars == <<logs, errorLogs, logged>>

pvars == <<pc, session, args, attempt, zattempt, lastErr, local, orders,
           audit, zinvoices, result, steps, zlog, hist>>

vars == <<pvars, zvars, lvars>>

\* ------------------------------------------------------------------------
\* Pure helpers
\* ------------------------------------------------------------------------
\* String.prototype.includes / SQL ilike '%needle%' on lower-cased text
Contains(hay, needle) ==
  \E i \in 0..(Len(hay) - Len(needle)) : SubSeq(hay, i + 1, i + Len(needle)) = needle

HasKeyword(s) == Contains(s, Keyword)

uuidRegexTest(identifier) == identifier \in UuidShaped

ServiceIdx == 1..Len(Services)

NoMatch == << >>

\* The ids resolveServiceWithFallback can return for an identifier; q[i] says
\* whether the query of strategy i returned data (an erroring query yields
\* data = null, which the code takes for "no match").  limit(1) without an
\* order picks any matching row.
resolveServiceWithFallback(identifier, q) ==
  LET byId   == {i \in ServiceIdx : Services[i].id = identifier}
      byName == {i \in ServiceIdx : Contains(Services[i].name, identifier)}
      byCat  == {i \in ServiceIdx : Contains(Services[i].category, identifier)}
      fuzzy  == {i \in ServiceIdx : \/ Contains(Services[i].name, identifier)
                                    \/ Contains(identifier, Services[i].name)}
      ids(S) == {Services[i].id : i \in S}
  IN  IF uuidRegexTest(identifier) /\ q[1] /\ byId # {} THEN {identifier}
      ELSE IF q[2] /\ byName # {} THEN ids(byName)
      ELSE IF q[3] /\ byCat # {} THEN ids(byCat)
      ELSE IF q[4] /\ fuzzy # {} THEN ids(fuzzy)
      ELSE {NoMatch}

\* ServiceManager.getServiceById: the catalog row with that id
getServiceById(id) == CHOOSE i \in ServiceIdx : Services[i].id = id

PaymentError(code, kw) == [code |-> code, kw |-> kw]

NoErr == PaymentError("", FALSE)

retryableErrors ==
  {"NETWORK_ERROR", "TIMEOUT", "ZOHO_TEMPORARY_ERROR", "DATABASE_TIMEOUT", "RATE_LIMIT"}

isRetryableError(error) == error.code \in retryableErrors \/ error.kw

\* enhanceError as it would be with the flag left at its default
enhanceError_DefaultFlag(error) ==
  [kind |-> "error",
   code |-> IF error.code = "" THEN "PAYMENT_ERROR" ELSE error.code,
   retryable |-> FALSE]

enhanceError(error) ==
  [kind |-> "error",
   code |-> IF error.code = "" THEN "PAYMENT_ERROR" ELSE error.code,
   retryable |-> isRetryableError(error)]

\* Number.prototype.toFixed(2) of n/d cents
Round(n, d) == (2 * n + d) \div (2 * d)

\* calculateCurrencyAmounts cutting the third decimal off instead of rounding
calculateCurrencyAmounts_Truncates(amount, currency) ==
  CASE currency = "USD" ->
         [usd |-> amount, inr |-> (amount * 8325) \div 100, aud |-> (amount * 152) \div 100]
    [] currency = "INR" ->
         [usd |-> (amount * 100) \div 8325, inr |-> amount, aud |-> (amount * 152) \div 8325]
    [] currency = "AUD" ->
         [usd |-> (amount * 100) \div 152, inr |-> (amount * 8325) \div 152, aud |-> amount]
    [] OTHER -> [usd |-> amount, inr |-> amount, aud |-> amount]

\* calculateCurrencyAmounts with the fallback rates {USD: 1, INR: 83.25, AUD: 1.52}
calculateCurrencyAmounts(amount, currency) ==
  CASE currency = "USD" ->
         [usd |-> amount, inr |-> Round(amount * 8325, 100), aud |-> Round(amount * 152, 100)]
    [] currency = "INR" ->
         [usd |-> Round(amount * 100, 8325), inr |-> amount, aud |-> Round(amount * 152, 8325)]
    [] currency = "AUD" ->
         [usd |-> Round(amount * 100, 152), inr |-> Round(amount * 8325, 152), aud |-> amount]
    [] OTHER -> [usd |-> amount, inr |-> amount, aud |-> amount]

\* validate_order_data without the checks of the amounts
validate_order_data_TierOnly(row) ==
  \E i \in ServiceIdx : /\ Services[i].id = row.service_id
                        /\ row.package_type \in DOMAIN Services[i].pricing

\* validate_order_data, the BEFORE INSERT OR UPDATE trigger of orders
validate_order_data(row) ==
  /\ row.currency = "USD" => row.amount_usd > 0
  /\ row.currency = "INR" => row.amount_inr > 0
  /\ row.currency = "AUD" => row.amount_aud > 0
  /\ \E i \in ServiceIdx : /\ Services[i].id = row.service_id
                           /\ row.package_type \in DOMAIN Services[i].pricing

NoArgs == [serviceIdentifier |-> NoMatch, packageType |-> "", totalPrice |-> 0,
           currency |-> "", quantity |-> 0]

NoAmounts == [usd |-> 0, inr |-> 0, aud |-> 0]

NoIntent == [invoice_id |-> NoId, customer_id |-> NoId]

NoLocal == [user |-> "none", serviceId |-> NoMatch, service |-> 0, amounts |-> NoAmounts,
            order |-> NoId, zohoResult |-> NoIntent]

NoResult == [kind |-> "none"]

\* The four secrets the entrypoint reads from its environment
SecretNames ==
  {"ZOHO_CLIENT_ID", "ZOHO_CLIENT_SECRET", "ZOHO_REFRESH_TOKEN", "ZOHO_ORGANIZATION_ID"}

RequestIds == 1..MaxRequests

NoResponse == [kind |-> "none", status |-> 0, error |-> ""]

IdleRequest ==
  [pc |-> "idle", method |-> "", body |-> "", customer |-> NoId, invoice |-> NoId,
   sent |-> "none", payment_url |-> "none", rejection |-> "none",
   trace |-> << >>, response |-> NoResponse]

\* createPaymentIntent has not been called
PaymentIdle ==
  /\ pc = "idle"
  /\ args = NoArgs
  /\ attempt = 0
  /\ zattempt = 0
  /\ lastErr = NoErr
  /\ local = NoLocal
  /\ orders = << >>
  /\ audit = << >>
  /\ zinvoices = << >>
  /\ result = NoResult
  /\ steps = << >>
  /\ zlog = << >>
  /\ hist = [posts |-> 0, auditWrites |-> 0, tierMissing |-> FALSE]

\* The entrypoint has received no request
\* The logger before it is constructed
LoggerIdle ==
  /\ logs = << >>
  /\ errorLogs = << >>
  /\ logged = << >>

ZohoIdle ==
  /\ requests = [r \in RequestIds |-> IdleRequest]
  /\ contacts = << >>
  /\ invoices = << >>

Init ==
  /\ PaymentIdle
  /\ session \in Sessions
  /\ ZohoIdle
  /\ secrets = SecretNames
  /\ LoggerIdle

\* ------------------------------------------------------------------------
\* createPaymentIntent
\* ------------------------------------------------------------------------
\* A step of the attempt completes / throws: the throw lands in the catch block
\* of createPaymentIntent
StepOk(step, next) ==
  /\ pc' = next
  /\ steps' = Append(steps, [step |-> step, ok |-> TRUE])
  /\ lastErr' = lastErr

StepThrows(step, error) ==
  /\ pc' = "caught"
  /\ steps' = Append(steps, [step |-> step, ok |-> FALSE])
  /\ lastErr' = error

\* The caller invokes createPaymentIntent; the loop starts with attempt = 1
Call ==
  /\ pc = "idle"
  /\ \E sid \in Identifiers, pkg \in PackageTypes, total \in Totals,
        cur \in Currencies, qty \in 1..MaxQty :
       args' = [serviceIdentifier |-> sid, packageType |-> pkg, totalPrice |-> total,
                currency |-> cur, quantity |-> qty]
  /\ attempt' = 1
  /\ pc' = "auth"
  /\ UNCHANGED <<zvars, lvars>>
  /\ UNCHANGED <<session, zattempt, lastErr, local, orders, audit, zinvoices, result,
                 steps, zlog, hist>>

\* ValidateUser without the email_confirmed_at check
ValidateUser_NoEmailCheck ==
  /\ pc = "auth"
  /\ \E user \in {session, "none"} :
       /\ local' = [NoLocal EXCEPT !.user = user]
       /\ IF user = "none"
            THEN StepThrows("auth", PaymentError("AUTH_REQUIRED", FALSE))
            ELSE /\ pc' = "resolve"
                 /\ steps' = steps \o << [step |-> "auth", ok |-> TRUE],
                                         [step |-> "verified", ok |-> TRUE] >>
                 /\ lastErr' = lastErr
  /\ UNCHANGED <<zvars, lvars>>
  /\ UNCHANGED <<session, args, attempt, zattempt, orders, audit, zinvoices, result,
                 zlog, hist>>

\* Step 1: supabase.auth.getUser() answers with the signed-in identity or fails;
\* the identity must exist and have a confirmed email
ValidateUser ==
  /\ pc = "auth"
  /\ \E user \in {session, "none"} :
       /\ local' = [NoLocal EXCEPT !.user = user]
       /\ IF user = "none"
            THEN StepThrows("auth", PaymentError("AUTH_REQUIRED", FALSE))
            ELSE IF user = "unverified"
                   THEN /\ pc' = "caught"
                        /\ steps' = steps \o << [step |-> "auth", ok |-> TRUE],
                                                [step |-> "verified", ok |-> FALSE] >>
                        /\ lastErr' = PaymentError("EMAIL_NOT_VERIFIED", FALSE)
                   ELSE /\ pc' = "resolve"
                        /\ steps' = steps \o << [step |-> "auth", ok |-> TRUE],
                                                [step |-> "verified", ok |-> TRUE] >>
                        /\ lastErr' = lastErr
  /\ UNCHANGED <<zvars, lvars>>
  /\ UNCHANGED <<session, args, attempt, zattempt, orders, audit, zinvoices, result,
                 zlog, hist>>

\* Step 2: resolveServiceWithFallback; the message of SERVICE_NOT_FOUND embeds
\* the identifier
ResolveService ==
  /\ pc = "resolve"
  /\ \E q \in [1..4 -> BOOLEAN] :
       \E serviceId \in resolveServiceWithFallback(args.serviceIdentifier, q) :
         /\ local' = [local EXCEPT !.serviceId = serviceId]
         /\ IF serviceId = NoMatch
              THEN StepThrows("resolve", PaymentError("SERVICE_NOT_FOUND",
                                                       HasKeyword(args.serviceIdentifier)))
              ELSE StepOk("resolve", "service")
  /\ UNCHANGED <<zvars, lvars>>
  /\ UNCHANGED <<session, args, attempt, zattempt, orders, audit, zinvoices, result,
                 zlog, hist>>

\* LoadService without the check of the package type
LoadService_NoTierCheck ==
  /\ pc = "service"
  /\ \E found \in BOOLEAN :
       LET service == getServiceById(local.serviceId)
       IN  IF ~found
             THEN /\ StepThrows("service", PaymentError("SERVICE_DATA_MISSING",
                                                         HasKeyword(local.serviceId)))
                  /\ UNCHANGED <<local, hist>>
             ELSE /\ local' = [local EXCEPT !.service = service]
                  /\ StepOk("service", "client")
                  /\ hist' = hist
  /\ UNCHANGED <<zvars, lvars>>
  /\ UNCHANGED <<session, args, attempt, zattempt, orders, audit, zinvoices, result,
                 zlog>>

\* Step 3: ServiceManager.getServiceById, then the package type must be a key
\* of the pricing; the message of INVALID_PACKAGE embeds the package type and
\* the service name
LoadService ==
  /\ pc = "service"
  /\ \E found \in BOOLEAN :
       LET service == getServiceById(local.serviceId)
       IN  IF ~found
             THEN /\ StepThrows("service", PaymentError("SERVICE_DATA_MISSING",
                                                         HasKeyword(local.serviceId)))
                  /\ UNCHANGED <<local, hist>>
             ELSE /\ local' = [local EXCEPT !.service = service]
                  /\ IF args.packageType \notin DOMAIN Services[service].pricing
                       THEN /\ StepThrows("service",
                                 PaymentError("INVALID_PACKAGE",
                                              \/ args.packageType = "temporary"
                                              \/ HasKeyword(Services[service].name)))
                            /\ hist' = [hist EXCEPT !.tierMissing = TRUE]
                       ELSE /\ StepOk("service", "client")
                            /\ hist' = hist
  /\ UNCHANGED <<zvars, lvars>>
  /\ UNCHANGED <<session, args, attempt, zattempt, orders, audit, zinvoices, result,
                 zlog>>

\* Step 4: the clients row of the user: the query fails, finds no row, or finds it
LoadClientProfile ==
  /\ pc = "client"
  /\ \E answer \in {"error", "missing", "row"} :
       CASE answer = "error" ->
              StepThrows("client", PaymentError("CLIENT_PROFILE_ERROR", FALSE))
         [] answer = "missing" ->
              StepThrows("client", PaymentError("CLIENT_PROFILE_MISSING", FALSE))
         [] OTHER -> StepOk("client", "amounts")
  /\ UNCHANGED <<zvars, lvars>>
  /\ UNCHANGED <<session, args, attempt, zattempt, local, orders, audit, zinvoices,
                 result, zlog, hist>>

\* Step 5: calculateCurrencyAmounts never throws
CalculateAmounts ==
  /\ pc = "amounts"
  /\ local' = [local EXCEPT !.amounts =
                 calculateCurrencyAmounts(args.totalPrice, args.currency)]
  /\ StepOk("amounts", "order")
  /\ UNCHANGED <<zvars, lvars>>
  /\ UNCHANGED <<session, args, attempt, zattempt, orders, audit, zinvoices, result,
                 zlog, hist>>

\* Step 6: insert the pending order; the insert fails on a database error (whose
\* message ORDER_CREATION_FAILED embeds) or when the trigger rejects the row
InsertOrder ==
  /\ pc = "order"
  /\ LET orderData ==
           [id |-> Len(orders) + 1,
            client_id |-> local.user,
            service_id |-> local.serviceId,
            package_type |-> args.packageType,
            amount_usd |-> local.amounts.usd,
            amount_inr |-> local.amounts.inr,
            amount_aud |-> local.amounts.aud,
            currency |-> args.currency,
            status |-> "pending",
            payment_gateway |-> "zoho",
            zoho_invoice_id |-> NoId,
            zoho_customer_id |-> NoId]
     IN  \E dbOk \in BOOLEAN, kw \in BOOLEAN :
           IF dbOk /\ validate_order_data(orderData)
             THEN /\ ~kw
                  /\ orders' = Append(orders, orderData)
                  /\ local' = [local EXCEPT !.order = orderData.id]
                  /\ zattempt' = 1
                  /\ StepOk("order", "health")
             ELSE /\ StepThrows("order", PaymentError("ORDER_CREATION_FAILED", kw))
                  /\ UNCHANGED <<orders, local, zattempt>>
  /\ UNCHANGED <<zvars, lvars>>
  /\ UNCHANGED <<session, args, attempt, audit, zinvoices, result, zlog, hist>>

\* The history keeps the first MaxHistory outcomes
Record(log, outcome) == IF Len(log) < MaxHistory THEN Append(log, outcome) ELSE log

\* A createZohoInvoiceAttempt throws: the throw lands in the catch block of
\* createZohoInvoiceWithRetry
ZohoThrows(error) ==
  /\ pc' = "zcaught"
  /\ lastErr' = error
  /\ zlog' = Record(zlog, IF isRetryableError(error) THEN "retryable" ELSE "fatal")

\* Step 7, createZohoInvoiceAttempt, first half: checkZohoHealth (GET); an
\* unhealthy answer raises ZOHO_UNAVAILABLE, whose message embeds the probe's
\* error.  The entrypoint answers 500 to every request while a secret is absent.
CheckZohoHealth ==
  /\ pc = "health"
  /\ \E healthy \in BOOLEAN, kw \in BOOLEAN :
       IF healthy
         THEN /\ secrets = SecretNames
              /\ ~kw
              /\ pc' = "post"
              /\ UNCHANGED <<lastErr, zlog>>
         ELSE ZohoThrows(PaymentError("ZOHO_UNAVAILABLE", kw))
  /\ UNCHANGED <<zvars, lvars>>
  /\ UNCHANGED <<session, args, attempt, zattempt, local, orders, audit, zinvoices,
                 result, steps, hist>>

\* The amount of an order in its own currency
unitPrice(order) ==
  CASE order.currency = "USD" -> order.amount_usd
    [] order.currency = "INR" -> order.amount_inr
    [] OTHER -> order.amount_aud

\* The service item with the amount of the order as the price of a unit
serviceItems_TotalAsUnit(order, quantity) ==
  << [serviceId |-> order.service_id,
      packageType |-> order.package_type,
      quantity |-> quantity,
      unitPrice |-> [num |-> unitPrice(order), den |-> 1],
      totalPrice |-> unitPrice(order)] >>

\* The one service item of the request: the price of a unit is the quotient
\* unitPrice / quantity, kept as numerator and denominator
serviceItems(order, quantity) ==
  << [serviceId |-> order.service_id,
      packageType |-> order.package_type,
      quantity |-> quantity,
      unitPrice |-> [num |-> unitPrice(order), den |-> quantity],
      totalPrice |-> unitPrice(order)] >>

\* The body of the POST; the notes name the order
invoiceData(order, quantity) ==
  [serviceItems |-> serviceItems(order, quantity),
   currency |-> order.currency,
   notes |-> [order |-> order.id, quantity |-> quantity]]

\* createZohoInvoice of the entrypoint: one line item for each service item
lineItems(data) ==
  [i \in DOMAIN data.serviceItems |->
     [description |-> [packageType |-> data.serviceItems[i].packageType,
                       quantity |-> data.serviceItems[i].quantity],
      rate |-> data.serviceItems[i].unitPrice,
      quantity |-> data.serviceItems[i].quantity,
      item_total |-> data.serviceItems[i].totalPrice]]

\* The invoice the entrypoint asks the provider for
invoicePayload(data) ==
  [order |-> data.notes.order,
   line_items |-> lineItems(data),
   currency_code |-> data.currency]

\* Step 7, createZohoInvoiceAttempt, second half: the POST to the invoicing
\* entrypoint.  "ok": 200 with the invoice; "401"; "500": any other failure
\* status, the message embeds the entrypoint's error text; "throw": fetch itself
\* fails.  With "500" and "throw" the provider may already hold the invoice.
\* "config": 500 with the text "Missing Zoho configuration", the answer of the
\* entrypoint while a secret is absent.
PostInvoice ==
  /\ pc = "post"
  /\ hist' = [hist EXCEPT !.posts = @ + 1]
  /\ \E answer \in {"ok", "401", "500", "throw", "config"}, made \in BOOLEAN,
        kw \in BOOLEAN :
       /\ secrets # SecretNames => (answer \in {"config", "throw"} /\ ~made)
       /\ answer = "config" => secrets # SecretNames
       /\ zinvoices' = IF made
                        THEN Append(zinvoices,
                                    invoicePayload(invoiceData(orders[local.order],
                                                               args.quantity)))
                        ELSE zinvoices
       /\ CASE answer = "ok" ->
                 /\ made /\ ~kw
                 /\ local' = [local EXCEPT !.zohoResult =
                                [invoice_id |-> Len(zinvoices) + 1,
                                 customer_id |-> CustomerId]]
                 /\ pc' = "update"
                 /\ zlog' = Record(zlog, "ok")
                 /\ lastErr' = lastErr
            [] answer = "401" ->
                 /\ ~made /\ ~kw
                 /\ ZohoThrows(PaymentError("ZOHO_AUTH_FAILED", FALSE))
                 /\ local' = local
            [] answer = "500" ->
                 /\ ZohoThrows(PaymentError("ZOHO_API_ERROR", kw))
                 /\ local' = local
            [] answer = "config" ->
                 /\ ~made /\ ~kw
                 /\ ZohoThrows(PaymentError("ZOHO_CONFIG_MISSING", FALSE))
                 /\ local' = local
            [] OTHER ->
                 /\ ZohoThrows(PaymentError("", kw))
                 /\ local' = local
  /\ UNCHANGED <<zvars, lvars>>
  /\ UNCHANGED <<session, args, attempt, zattempt, orders, audit, result, steps>>

\* CatchZoho giving up one attempt early
CatchZoho_GivesUpEarly ==
  /\ pc = "zcaught"
  /\ IF zattempt = MAX_RETRIES - 1
       THEN /\ StepThrows("invoice", lastErr)
            /\ zattempt' = zattempt
       ELSE /\ zattempt' = zattempt + 1
            /\ pc' = "health"
            /\ lastErr' = NoErr
            /\ steps' = steps
  /\ UNCHANGED <<zvars, lvars>>
  /\ UNCHANGED <<session, args, attempt, local, orders, audit, zinvoices, result,
                 zlog, hist>>

\* The catch block of createZohoInvoiceWithRetry: rethrow after the last
\* attempt, otherwise wait and go round the loop again
CatchZoho ==
  /\ pc = "zcaught"
  /\ IF zattempt = MAX_RETRIES
       THEN /\ StepThrows("invoice", lastErr)
            /\ zattempt' = zattempt
       ELSE /\ zattempt' = zattempt + 1
            /\ pc' = IF zattempt + 1 <= MAX_RETRIES THEN "health" ELSE "afterZohoLoop"
            /\ lastErr' = NoErr
            /\ steps' = steps
  /\ UNCHANGED <<zvars, lvars>>
  /\ UNCHANGED <<session, args, attempt, local, orders, audit, zinvoices, result,
                 zlog, hist>>

\* Step 8 as it would be without the filter on the id of the order
UpdateOrder_NoFilter ==
  /\ pc = "update"
  /\ \E dbOk \in BOOLEAN :
       orders' = IF dbOk
                   THEN [i \in 1..Len(orders) |->
                           [orders[i] EXCEPT
                              !.zoho_invoice_id = local.zohoResult.invoice_id,
                              !.zoho_customer_id = local.zohoResult.customer_id]]
                   ELSE orders
  /\ result' = [kind |-> "intent",
                invoice_id |-> local.zohoResult.invoice_id,
                customer_id |-> local.zohoResult.customer_id]
  /\ steps' = steps \o << [step |-> "invoice", ok |-> TRUE], [step |-> "update", ok |-> TRUE] >>
  /\ pc' = "done"
  /\ UNCHANGED <<zvars, lvars>>
  /\ UNCHANGED <<session, args, attempt, zattempt, lastErr, local, audit, zinvoices,
                 zlog, hist>>

\* Step 8: write the invoice and customer ids to the order (the outcome of the
\* update is not looked at) and return the payment intent
UpdateOrder ==
  /\ pc = "update"
  /\ \E dbOk \in BOOLEAN :
       orders' = IF dbOk
                   THEN [orders EXCEPT
                           ![local.order].zoho_invoice_id = local.zohoResult.invoice_id,
                           ![local.order].zoho_customer_id = local.zohoResult.customer_id]
                   ELSE orders
  /\ result' = [kind |-> "intent",
                invoice_id |-> local.zohoResult.invoice_id,
                customer_id |-> local.zohoResult.customer_id]
  /\ steps' = steps \o << [step |-> "invoice", ok |-> TRUE], [step |-> "update", ok |-> TRUE] >>
  /\ pc' = "done"
  /\ UNCHANGED <<zvars, lvars>>
  /\ UNCHANGED <<session, args, attempt, zattempt, lastErr, local, audit, zinvoices,
                 zlog, hist>>

\* CatchAttempt writing the audit entry for every failed attempt
CatchAttempt_LogsEachAttempt ==
  /\ pc = "caught"
  /\ IF attempt = MAX_RETRIES \/ ~isRetryableError(lastErr)
       THEN /\ pc' = "logfail"
            /\ UNCHANGED <<attempt, zattempt, lastErr, steps, local, audit, hist>>
       ELSE /\ attempt' = attempt + 1
            /\ pc' = "auth"
            /\ zattempt' = 0
            /\ lastErr' = NoErr
            /\ steps' = << >>
            /\ local' = NoLocal
            /\ audit' = Append(audit, [client_id |-> session,
                                       action |-> "payment_creation_failed",
                                       success |-> FALSE,
                                       error_message |-> lastErr])
            /\ hist' = [hist EXCEPT !.auditWrites = @ + 1]
  /\ UNCHANGED <<zvars, lvars>>
  /\ UNCHANGED <<session, args, orders, zinvoices, result, zlog>>

\* The catch block of createPaymentIntent: give up after the last attempt or on
\* an error that is not retryable, otherwise wait and run the attempt again
CatchAttempt ==
  /\ pc = "caught"
  /\ IF attempt = MAX_RETRIES \/ ~isRetryableError(lastErr)
       THEN /\ pc' = "logfail"
            /\ UNCHANGED <<attempt, zattempt, lastErr, steps, local>>
       ELSE /\ attempt' = attempt + 1
            /\ pc' = IF attempt + 1 <= MAX_RETRIES THEN "auth" ELSE "afterLoop"
            /\ zattempt' = 0
            /\ lastErr' = NoErr
            /\ steps' = << >>
            /\ local' = NoLocal
  /\ UNCHANGED <<zvars, lvars>>
  /\ UNCHANGED <<session, args, orders, audit, zinvoices, result, zlog, hist>>

\* logPaymentFailure without its try/catch: a failed insert is thrown on
logPaymentFailure_Throws(log, user, error, dbOk) ==
  [audit |-> IF dbOk
               THEN Append(log, [client_id |-> user,
                                 action |-> "payment_creation_failed",
                                 success |-> FALSE,
                                 error_message |-> error])
               ELSE log,
   threw |-> ~dbOk]

\* logPaymentFailure: the insert into purchase_audit_log inside try/catch; what
\* the log holds afterwards and whether the method throws, which it never does
logPaymentFailure(log, user, error, dbOk) ==
  [audit |-> IF dbOk
               THEN Append(log, [client_id |-> user,
                                 action |-> "payment_creation_failed",
                                 success |-> FALSE,
                                 error_message |-> error])
               ELSE log,
   threw |-> FALSE]

\* logPaymentFailure as it would be if it also cancelled the orders left
\* without an invoice
LogPaymentFailure_CancelsOrders ==
  /\ pc = "logfail"
  /\ \E user \in {session, "none"}, dbOk \in BOOLEAN :
       audit' = IF dbOk
                  THEN Append(audit, [client_id |-> user,
                                      action |-> "payment_creation_failed",
                                      success |-> FALSE,
                                      error_message |-> lastErr])
                  ELSE audit
  /\ orders' = [i \in 1..Len(orders) |-> [orders[i] EXCEPT !.status = "cancelled"]]
  /\ hist' = [hist EXCEPT !.auditWrites = @ + 1]
  /\ result' = enhanceError(lastErr)
  /\ pc' = "failed"
  /\ UNCHANGED <<zvars, lvars>>
  /\ UNCHANGED <<session, args, attempt, zattempt, lastErr, local, zinvoices,
                 steps, zlog>>

\* await logPaymentFailure, then throw enhanceError(error): the audit insert
\* may fail, which is only logged to the console; an error thrown by
\* logPaymentFailure would leave the catch block as it is
LogPaymentFailure ==
  /\ pc = "logfail"
  /\ \E user \in {session, "none"}, dbOk \in BOOLEAN :
       LET outcome == logPaymentFailure(audit, user, lastErr, dbOk)
       IN  /\ audit' = outcome.audit
           /\ result' = IF outcome.threw
                          THEN [kind |-> "error", code |-> "insert", retryable |-> FALSE]
                          ELSE enhanceError(lastErr)
  /\ hist' = [hist EXCEPT !.auditWrites = @ + 1]
  /\ pc' = "failed"
  /\ UNCHANGED <<zvars, lvars>>
  /\ UNCHANGED <<session, args, attempt, zattempt, lastErr, local, orders, zinvoices,
                 steps, zlog>>

Next ==
  \/ Call
  \/ ValidateUser
  \/ ResolveService
  \/ LoadService
  \/ LoadClientProfile
  \/ CalculateAmounts
  \/ InsertOrder
  \/ CheckZohoHealth
  \/ PostInvoice
  \/ CatchZoho
  \/ UpdateOrder
  \/ CatchAttempt
  \/ LogPaymentFailure

Spec == Init /\ [][Next]_vars

\* The calls whose end is followed: an identifier that is the id of a service
\* or matches none and holds a keyword, a tier that is there or is not and is
\* a keyword
LiveInputs ==
  [serviceIdentifier : {<<"U", "1">>, <<"n", "w">>},
   packageType : {"basic", "temporary"},
   totalPrice : Totals,
   currency : {"USD"},
   quantity : {1}]

\* createPaymentIntent entered with its loop starting at attempt = 0
InitLive_StartsAtZero ==
  /\ session \in Sessions
  /\ args \in LiveInputs
  /\ attempt = 0
  /\ pc = "auth"
  /\ zattempt = 0
  /\ lastErr = NoErr
  /\ local = NoLocal
  /\ orders = << >>
  /\ audit = << >>
  /\ zinvoices = << >>
  /\ result = NoResult
  /\ steps = << >>
  /\ zlog = << >>
  /\ hist = [posts |-> 0, auditWrites |-> 0, tierMissing |-> FALSE]
  /\ ZohoIdle
  /\ secrets = SecretNames
  /\ LoggerIdle

\* createPaymentIntent has been entered: the loop starts with attempt = 1
InitLive ==
  /\ session \in Sessions
  /\ args \in LiveInputs
  /\ attempt = 1
  /\ pc = "auth"
  /\ zattempt = 0
  /\ lastErr = NoErr
  /\ local = NoLocal
  /\ orders = << >>
  /\ audit = << >>
  /\ zinvoices = << >>
  /\ result = NoResult
  /\ steps = << >>
  /\ zlog = << >>
  /\ hist = [posts |-> 0, auditWrites |-> 0, tierMissing |-> FALSE]
  /\ ZohoIdle
  /\ secrets = SecretNames
  /\ LoggerIdle

\* The steps of a call that has been entered
NextLive ==
  \/ ValidateUser
  \/ ResolveService
  \/ LoadService
  \/ LoadClientProfile
  \/ CalculateAmounts
  \/ InsertOrder
  \/ CheckZohoHealth
  \/ PostInvoice
  \/ CatchZoho
  \/ UpdateOrder
  \/ CatchAttempt
  \/ LogPaymentFailure

\* createPaymentIntent when every call it awaits returns: a step that can be
\* taken is taken
SpecLive == InitLive /\ [][NextLive]_vars /\ WF_vars(NextLive)

\* createPaymentIntent in an environment of the entrypoint that may lack one
\* of the secrets, from before the call to after it
InitConfig ==
  /\ PaymentIdle
  /\ session \in Sessions
  /\ ZohoIdle
  /\ secrets \in {SecretNames} \cup {SecretNames \ {n} : n \in SecretNames}
  /\ LoggerIdle

SpecConfig == InitConfig /\ [][Next]_vars

\* ------------------------------------------------------------------------
\* The invoicing entrypoint: Deno.serve handler of zoho-integration
\* ------------------------------------------------------------------------
Methods == {"GET", "POST", "PUT"}

\* What the body of a POST can be: valid, or failing one of the handler's checks
Bodies ==
  {"valid", "badJson", "noCustomerData", "noEmail", "noName", "noServiceItems",
   "noCurrency"}

\* customerData of the requests
ReqName == "n1"
ReqEmail == "e1"

\* What the provider may hold before the first request: nothing, the customer,
\* or another customer of the same name
InitialContacts ==
  { << >>,
    << [contact_id |-> 1, contact_name |-> "n1", email |-> "e1"] >>,
    << [contact_id |-> 1, contact_name |-> "n1", email |-> "e2"] >> }

\* The request got one step further: a provider call was made, with its outcome
Traced(q, call, ok) == [q EXCEPT !.trace = Append(@, [call |-> call, ok |-> ok])]

\* The catch block as it would be without the status of the response set
Failed_DefaultStatus(q, error) ==
  [q EXCEPT !.pc = "done",
            !.response = [kind |-> "failure", status |-> 200, error |-> error]]

\* The catch block of the handler: log, respond success = false with status 500
Failed(q, error) ==
  [q EXCEPT !.pc = "done",
            !.response = [kind |-> "failure", status |-> 500, error |-> error]]

\* The handler as it would be without the check of the secrets
Receive_NoConfigCheck(r) ==
  /\ requests[r].pc = "idle"
  /\ \E method \in Methods :
       requests' = [requests EXCEPT ![r] =
                      [requests[r] EXCEPT !.method = method, !.pc = "token"]]
  /\ UNCHANGED <<secrets, contacts, invoices>>
  /\ UNCHANGED <<pvars, lvars>>

\* The handler takes a request: the secrets are read and checked, before any
\* network call
Receive(r) ==
  /\ requests[r].pc = "idle"
  /\ \E method \in Methods :
       LET q == [requests[r] EXCEPT !.method = method]
       IN  requests' = [requests EXCEPT ![r] =
             IF secrets # SecretNames
               THEN Failed(q, "Missing Zoho configuration")
               ELSE [q EXCEPT !.pc = "token"]]
  /\ UNCHANGED <<secrets, contacts, invoices>>
  /\ UNCHANGED <<pvars, lvars>>

\* The request checks of the POST branch, made once the token is there
BodyError(body) ==
  CASE body = "badJson" -> "Invalid JSON in request body"
    [] body = "noCustomerData" -> "Missing customerData in request"
    [] body = "noEmail" -> "Missing customer email in customerData"
    [] body = "noName" -> "Missing customer name in customerData"
    [] body = "noServiceItems" -> "Missing serviceItems or empty serviceItems array"
    [] body = "noCurrency" -> "Missing currency in request"
    [] OTHER -> ""

\* getZohoAccessToken, then the dispatch on the method; the body of a POST is
\* read and checked here
getZohoAccessToken(r) ==
  /\ requests[r].pc = "token"
  /\ \E ok \in BOOLEAN, body \in Bodies :
       LET q == Traced(requests[r], "token", ok)
       IN  /\ (~ok \/ q.method # "POST") => body = "valid"
           /\ requests' = [requests EXCEPT ![r] =
                IF ~ok THEN Failed(q, "Token request failed")
                ELSE IF q.method = "GET" THEN [q EXCEPT !.pc = "test"]
                ELSE IF q.method = "POST"
                       THEN IF BodyError(body) # ""
                              THEN Failed([q EXCEPT !.body = body], BodyError(body))
                              ELSE [q EXCEPT !.body = body, !.pc = "findByEmail"]
                ELSE Failed(q, "Method not allowed")]
  /\ UNCHANGED <<secrets, contacts, invoices>>
  /\ UNCHANGED <<pvars, lvars>>

\* GET: testZohoConnection, then the success response
testZohoConnection(r) ==
  /\ requests[r].pc = "test"
  /\ \E ok \in BOOLEAN :
       LET q == Traced(requests[r], "test", ok)
       IN  requests' = [requests EXCEPT ![r] =
             IF ok THEN [q EXCEPT !.pc = "done",
                                  !.response = [kind |-> "success", status |-> 200,
                                                error |-> ""]]
                   ELSE Failed(q, "Zoho API test failed")]
  /\ UNCHANGED <<secrets, contacts, invoices>>
  /\ UNCHANGED <<pvars, lvars>>

\* What a contacts query can answer: an error, no contact, or one of the
\* matching contacts (possibly one the response gives no contact_id for)
FindAnswers(matching) ==
  {[kind |-> "error", id |-> NoId]} \cup
  (IF matching = {} THEN {[kind |-> "none", id |-> NoId]}
   ELSE {[kind |-> "found", id |-> contacts[i].contact_id] : i \in matching}
          \cup {[kind |-> "found", id |-> NoId]})

ByEmail(email) == {i \in 1..Len(contacts) : contacts[i].email = email}

ByName(name) == {i \in 1..Len(contacts) : contacts[i].contact_name = name}

\* createZohoCustomer returned a customer to the handler, which requires a
\* contact_id before it goes on to the invoice
CustomerProcessed(q, id) ==
  IF id = NoId THEN Failed(q, "Invalid customer data received from Zoho")
  ELSE [q EXCEPT !.customer = id, !.pc = "createInvoice"]

\* createZohoCustomer, first: findZohoCustomerByEmail; a customer found is
\* returned, anything else (no customer, a failed query) leads to the creation
findZohoCustomerByEmail(r) ==
  /\ requests[r].pc = "findByEmail"
  /\ \E answer \in FindAnswers(ByEmail(ReqEmail)) :
       LET q == Traced(requests[r], "findByEmail", answer.kind = "found")
       IN  requests' = [requests EXCEPT ![r] =
             IF answer.kind = "found" THEN CustomerProcessed(q, answer.id)
             ELSE [q EXCEPT !.pc = "createContact"]]
  /\ UNCHANGED <<secrets, contacts, invoices>>
  /\ UNCHANGED <<pvars, lvars>>

\* createZohoCustomer as it would be if a rejected name were retried under
\* another name instead of being searched
createZohoCustomer_RenamesOnDuplicate(r) ==
  /\ requests[r].pc = "createContact"
  /\ \E answer \in {"created", "createdNoId", "exists", "error"} :
       /\ answer = "exists" => ByName(ReqName) # {}
       /\ answer \in {"created", "createdNoId"} => ByName(ReqName) = {}
       /\ LET id == Len(contacts) + 1
              q  == Traced(requests[r], "createContact", answer # "error")
          IN  /\ contacts' = IF answer # "error"
                               THEN Append(contacts,
                                      [contact_id |-> id,
                                       contact_name |-> IF answer = "exists"
                                                          THEN "n1-2" ELSE ReqName,
                                       email |-> ReqEmail])
                               ELSE contacts
              /\ requests' = [requests EXCEPT ![r] =
                   CASE answer \in {"created", "exists"} -> CustomerProcessed(q, id)
                     [] answer = "createdNoId" -> CustomerProcessed(q, NoId)
                     [] OTHER ->
                          Failed([q EXCEPT !.rejection = "other"],
                                 "Customer creation failed")]
  /\ UNCHANGED <<secrets, invoices>>
  /\ UNCHANGED <<pvars, lvars>>

\* createZohoCustomer, second: POST /contacts.  The provider rejects a name it
\* already has ("exists": code 3062), rejects for another reason ("error"), or
\* creates the contact (the response may lack the contact_id)
createZohoCustomer(r) ==
  /\ requests[r].pc = "createContact"
  /\ \E answer \in {"created", "createdNoId", "exists", "error"} :
       /\ answer = "exists" => ByName(ReqName) # {}
       /\ answer \in {"created", "createdNoId"} => ByName(ReqName) = {}
       /\ LET id == Len(contacts) + 1
              q  == Traced(requests[r], "createContact",
                           answer \in {"created", "createdNoId"})
          IN  /\ contacts' = IF answer \in {"created", "createdNoId"}
                               THEN Append(contacts, [contact_id |-> id,
                                                      contact_name |-> ReqName,
                                                      email |-> ReqEmail])
                               ELSE contacts
              /\ requests' = [requests EXCEPT ![r] =
                   CASE answer = "created" -> CustomerProcessed(q, id)
                     [] answer = "createdNoId" -> CustomerProcessed(q, NoId)
                     [] answer = "exists" ->
                          [q EXCEPT !.rejection = "exists", !.pc = "refindByEmail"]
                     [] OTHER ->
                          Failed([q EXCEPT !.rejection = "other"],
                                 "Customer creation failed")]
  /\ UNCHANGED <<secrets, invoices>>
  /\ UNCHANGED <<pvars, lvars>>

\* The search by email after "already exists" as it would be without the
\* search by name behind it
refindZohoCustomerByEmail_NoNameSearch(r) ==
  /\ requests[r].pc = "refindByEmail"
  /\ \E answer \in FindAnswers(ByEmail(ReqEmail)) :
       LET q == Traced(requests[r], "findByEmail", answer.kind = "found")
       IN  requests' = [requests EXCEPT ![r] =
             IF answer.kind = "found" THEN CustomerProcessed(q, answer.id)
             ELSE Failed(q, "Customer creation failed")]
  /\ UNCHANGED <<secrets, contacts, invoices>>
  /\ UNCHANGED <<pvars, lvars>>

\* createZohoCustomer after "already exists": search by email again
refindZohoCustomerByEmail(r) ==
  /\ requests[r].pc = "refindByEmail"
  /\ \E answer \in FindAnswers(ByEmail(ReqEmail)) :
       LET q == Traced(requests[r], "findByEmail", answer.kind = "found")
       IN  requests' = [requests EXCEPT ![r] =
             IF answer.kind = "found" THEN CustomerProcessed(q, answer.id)
             ELSE [q EXCEPT !.pc = "findByName"]]
  /\ UNCHANGED <<secrets, contacts, invoices>>
  /\ UNCHANGED <<pvars, lvars>>

\* createZohoCustomer after "already exists": search by name, then give up
findZohoCustomerByName(r) ==
  /\ requests[r].pc = "findByName"
  /\ \E answer \in FindAnswers(ByName(ReqName)) :
       LET q == Traced(requests[r], "findByName", answer.kind = "found")
       IN  requests' = [requests EXCEPT ![r] =
             IF answer.kind = "found" THEN CustomerProcessed(q, answer.id)
             ELSE Failed(q, "Customer creation failed")]
  /\ UNCHANGED <<secrets, contacts, invoices>>
  /\ UNCHANGED <<pvars, lvars>>

\* createZohoInvoice, first: POST /invoices
createZohoInvoice(r) ==
  /\ requests[r].pc = "createInvoice"
  /\ \E answer \in {"created", "noInvoice", "error"} :
       LET id == Len(invoices) + 1
           q  == Traced(requests[r], "createInvoice", answer = "created")
       IN  IF requests[r].customer = NoId
             THEN /\ answer = "error"
                  /\ requests' = [requests EXCEPT ![r] =
                                    Failed(requests[r], "Invalid customer ID")]
                  /\ invoices' = invoices
             ELSE /\ invoices' = IF answer = "created"
                                   THEN Append(invoices,
                                               [invoice_id |-> id,
                                                customer_id |-> requests[r].customer,
                                                status |-> "draft"])
                                   ELSE invoices
                  /\ requests' = [requests EXCEPT ![r] =
                       CASE answer = "created" -> [q EXCEPT !.invoice = id, !.pc = "markSent"]
                         [] answer = "noInvoice" -> Failed(q, "No invoice data in response")
                         [] OTHER -> Failed(q, "Invoice creation failed")]
  /\ UNCHANGED <<secrets, contacts>>
  /\ UNCHANGED <<pvars, lvars>>

\* sendZohoInvoice as it would be if a rejected mark-sent were only logged
sendZohoInvoice_SwallowsError(r) ==
  /\ requests[r].pc = "markSent"
  /\ \E answer \in {"sent", "sentNoInvoice", "error"} :
       LET q == Traced(requests[r], "markSent", answer # "error")
       IN  /\ invoices' = IF answer = "error" THEN invoices
                          ELSE [invoices EXCEPT ![requests[r].invoice].status = "sent"]
           /\ requests' = [requests EXCEPT ![r] =
                CASE answer = "sent" -> [q EXCEPT !.sent = "sent", !.pc = "getInvoice"]
                  [] answer = "sentNoInvoice" ->
                       [q EXCEPT !.sent = "undefined", !.pc = "getInvoice"]
                  [] OTHER -> [q EXCEPT !.sent = "draft", !.pc = "getInvoice"]]
  /\ UNCHANGED <<secrets, contacts>>
  /\ UNCHANGED <<pvars, lvars>>

\* sendZohoInvoice: POST /invoices/{id}/status/sent; the answer may lack the
\* invoice object
sendZohoInvoice(r) ==
  /\ requests[r].pc = "markSent"
  /\ \E answer \in {"sent", "sentNoInvoice", "error"} :
       LET q == Traced(requests[r], "markSent", answer # "error")
       IN  /\ invoices' = IF answer = "error" THEN invoices
                          ELSE [invoices EXCEPT ![requests[r].invoice].status = "sent"]
           /\ requests' = [requests EXCEPT ![r] =
                CASE answer = "sent" -> [q EXCEPT !.sent = "sent", !.pc = "getInvoice"]
                  [] answer = "sentNoInvoice" ->
                       [q EXCEPT !.sent = "undefined", !.pc = "getInvoice"]
                  [] OTHER -> Failed(q, "Failed to send invoice")]
  /\ UNCHANGED <<secrets, contacts>>
  /\ UNCHANGED <<pvars, lvars>>

\* getZohoPaymentUrl never throws: the portal URL of the invoice, or the URL
\* built from the organization id and the invoice id.  Back in createZohoInvoice
\* the status of the sent invoice is read, then the handler responds.
getZohoPaymentUrl(r) ==
  /\ requests[r].pc = "getInvoice"
  /\ \E answer \in {"url", "noUrl", "error"} :
       LET q == [Traced(requests[r], "getInvoice", TRUE) EXCEPT
                   !.payment_url = IF answer = "url" THEN "portal" ELSE "fallback"]
       IN  requests' = [requests EXCEPT ![r] =
             IF q.sent = "undefined"
               THEN Failed(q, "Cannot read properties of undefined")
               ELSE [q EXCEPT !.pc = "done",
                              !.response = [kind |-> "success", status |-> 200,
                                            error |-> ""]]]
  /\ UNCHANGED <<secrets, contacts, invoices>>
  /\ UNCHANGED <<pvars, lvars>>

InitZoho ==
  /\ PaymentIdle
  /\ session = "none"
  /\ requests = [r \in RequestIds |-> IdleRequest]
  /\ contacts \in InitialContacts
  /\ invoices = << >>
  /\ secrets \in {SecretNames} \cup {SecretNames \ {n} : n \in SecretNames}
  /\ LoggerIdle

NextZoho ==
  \/ \E r \in RequestIds : Receive(r)
  \/ \E r \in RequestIds : getZohoAccessToken(r)
  \/ \E r \in RequestIds : testZohoConnection(r)
  \/ \E r \in RequestIds : findZohoCustomerByEmail(r)
  \/ \E r \in RequestIds : createZohoCustomer(r)
  \/ \E r \in RequestIds : refindZohoCustomerByEmail(r)
  \/ \E r \in RequestIds : findZohoCustomerByName(r)
  \/ \E r \in RequestIds : createZohoInvoice(r)
  \/ \E r \in RequestIds : sendZohoInvoice(r)
  \/ \E r \in RequestIds : getZohoPaymentUrl(r)

SpecZoho == InitZoho /\ [][NextZoho]_vars

\* ------------------------------------------------------------------------
\* The invoicing entrypoint as of supabase/functions/zoho-integration/index.ts:
\* the same handler (Receive, testZohoConnection), with its own
\* createZohoCustomer, findZohoCustomer and createZohoInvoice
\* ------------------------------------------------------------------------
\* getZohoAccessToken, then the dispatch on the method; for a POST the body is
\* read and checked, then createZohoCustomer is called
legacy_getZohoAccessToken(r) ==
  /\ requests[r].pc = "token"
  /\ \E ok \in BOOLEAN, body \in Bodies :
       LET q == Traced(requests[r], "token", ok)
       IN  /\ (~ok \/ q.method # "POST") => body = "valid"
           /\ requests' = [requests EXCEPT ![r] =
                IF ~ok THEN Failed(q, "Token request failed")
                ELSE IF q.method = "GET" THEN [q EXCEPT !.pc = "test"]
                ELSE IF q.method = "POST"
                       THEN IF BodyError(body) # ""
                              THEN Failed([q EXCEPT !.body = body], BodyError(body))
                              ELSE [q EXCEPT !.body = body, !.pc = "legacyCreate"]
                ELSE Failed(q, "Method not allowed")]
  /\ UNCHANGED <<secrets, contacts, invoices>>
  /\ UNCHANGED <<pvars, lvars>>

\* createZohoCustomer: POST /contacts straight away.  A rejection with status
\* 400 or 422, or a text containing "already exists" or "duplicate"
\* ("searchable"), leads to findZohoCustomer; any other rejection is thrown.
legacy_createZohoCustomer(r) ==
  /\ requests[r].pc = "legacyCreate"
  /\ \E answer \in {"created", "createdNoId", "searchable", "error"} :
       /\ answer \in {"created", "createdNoId"} => ByName(ReqName) = {}
       /\ LET id == Len(contacts) + 1
              q  == Traced(requests[r], "createContact",
                           answer \in {"created", "createdNoId"})
          IN  /\ contacts' = IF answer \in {"created", "createdNoId"}
                               THEN Append(contacts, [contact_id |-> id,
                                                      contact_name |-> ReqName,
                                                      email |-> ReqEmail])
                               ELSE contacts
              /\ requests' = [requests EXCEPT ![r] =
                   CASE answer = "created" -> CustomerProcessed(q, id)
                     [] answer = "createdNoId" -> CustomerProcessed(q, NoId)
                     [] answer = "searchable" ->
                          [q EXCEPT !.rejection = "exists", !.pc = "legacyFind"]
                     [] OTHER ->
                          Failed([q EXCEPT !.rejection = "other"],
                                 "Customer creation failed")]
  /\ UNCHANGED <<secrets, invoices>>
  /\ UNCHANGED <<pvars, lvars>>

\* findZohoCustomer: search by email; without a customer found the creation
\* error is thrown
legacy_findZohoCustomer(r) ==
  /\ requests[r].pc = "legacyFind"
  /\ \E answer \in FindAnswers(ByEmail(ReqEmail)) :
       LET q == Traced(requests[r], "findByEmail", answer.kind = "found")
       IN  requests' = [requests EXCEPT ![r] =
             IF answer.kind = "found" THEN CustomerProcessed(q, answer.id)
             ELSE Failed(q, "Customer creation failed")]
  /\ UNCHANGED <<secrets, contacts, invoices>>
  /\ UNCHANGED <<pvars, lvars>>

\* createZohoInvoice: POST /invoices, and the payment URL built from the
\* invoice id; the invoice is neither marked sent nor fetched again
legacy_createZohoInvoice(r) ==
  /\ requests[r].pc = "createInvoice"
  /\ \E answer \in {"created", "noInvoice", "error"} :
       LET id == Len(invoices) + 1
           q  == Traced(requests[r], "createInvoice", answer = "created")
       IN  /\ invoices' = IF answer = "created"
                            THEN Append(invoices,
                                        [invoice_id |-> id,
                                         customer_id |-> requests[r].customer,
                                         status |-> "draft"])
                            ELSE invoices
           /\ requests' = [requests EXCEPT ![r] =
                CASE answer = "created" ->
                       [q EXCEPT !.invoice = id, !.payment_url = "direct",
                                 !.pc = "done",
                                 !.response = [kind |-> "success", status |-> 200,
                                               error |-> ""]]
                  [] answer = "noInvoice" -> Failed(q, "No invoice data in response")
                  [] OTHER -> Failed(q, "Invoice creation failed")]
  /\ UNCHANGED <<secrets, contacts>>
  /\ UNCHANGED <<pvars, lvars>>

NextZohoLegacy ==
  \/ \E r \in RequestIds : Receive(r)
  \/ \E r \in RequestIds : legacy_getZohoAccessToken(r)
  \/ \E r \in RequestIds : testZohoConnection(r)
  \/ \E r \in RequestIds : legacy_createZohoCustomer(r)
  \/ \E r \in RequestIds : legacy_findZohoCustomer(r)
  \/ \E r \in RequestIds : legacy_createZohoInvoice(r)

SpecZohoLegacy == InitZoho /\ [][NextZohoLegacy]_vars

\* ------------------------------------------------------------------------
\* AlternativePaymentService: the email and bank-transfer channels and
\* createPaymentWithFallback
\* ------------------------------------------------------------------------
\* orderData of a call: a catalog id or one that is none, a tier, an amount
ServiceIds == { <<"U", "1">>, <<"U", "2">>, <<"x">> }

Amounts == {0, 400}

\* The three amounts the channels store: whatever the currency of the amount,
\* amount / 83.25 as USD, amount * 83.25 as INR, amount * 1.52 as AUD, but the
\* amount itself in the column of its currency; numeric(10,2) columns
alternativeAmounts(amount, currency) ==
  [usd |-> IF currency = "USD" THEN amount ELSE Round(amount * 100, 8325),
   inr |-> IF currency = "INR" THEN amount ELSE Round(amount * 8325, 100),
   aud |-> IF currency = "AUD" THEN amount ELSE Round(amount * 152, 100)]

\* An Order left by an earlier createPaymentIntent call
EarlierOrder ==
  [id |-> 1, client_id |-> "verified", service_id |-> <<"U", "1">>,
   package_type |-> "basic", amount_usd |-> 400, amount_inr |-> 33300,
   amount_aud |-> 608, currency |-> "USD", status |-> "pending",
   payment_gateway |-> "zoho", zoho_invoice_id |-> NoId, zoho_customer_id |-> NoId]

InitAlt ==
  /\ pc = "idle"
  /\ session \in Sessions
  /\ args = NoArgs
  /\ attempt = 0
  /\ zattempt = 0
  /\ lastErr = NoErr
  /\ local = NoLocal
  /\ orders \in { << >>, << EarlierOrder >> }
  /\ audit = << >>
  /\ zinvoices = << >>
  /\ result = NoResult
  /\ steps = << >>
  /\ zlog = << >>
  /\ hist = [posts |-> 0, auditWrites |-> 0, tierMissing |-> FALSE]
  /\ ZohoIdle
  /\ secrets = SecretNames
  /\ LoggerIdle

AltUnchanged ==
  /\ UNCHANGED <<zvars, lvars>>
  /\ UNCHANGED <<session, attempt, zattempt, lastErr, audit, zinvoices, zlog, hist>>

\* The caller invokes createPaymentWithFallback, or one of the two channels
CallAlternative ==
  /\ pc = "idle"
  /\ \E sid \in ServiceIds, pkg \in PackageTypes, amount \in Amounts,
        cur \in Currencies :
       args' = [serviceIdentifier |-> sid, packageType |-> pkg, totalPrice |-> amount,
                currency |-> cur, quantity |-> 1]
  /\ pc' \in {"methods", "email", "bank_transfer"}
  /\ UNCHANGED <<local, orders, result, steps>>
  /\ AltUnchanged

\* getAvailablePaymentMethods: the GET probe of the entrypoint; zoho is marked
\* available when the answer is ok and says success.  Back in
\* createPaymentWithFallback the zoho method is taken when it is available.
getAvailablePaymentMethods ==
  /\ pc = "methods"
  /\ \E answer \in {"success", "noSuccess", "notOk", "throws"} :
       LET available == answer = "success"
       IN  /\ steps' = Append(steps, [step |-> "probe", ok |-> available])
           /\ pc' = IF available THEN "zoho" ELSE "fallback"
  /\ UNCHANGED <<args, local, orders, result>>
  /\ AltUnchanged

\* The handler of the zoho method throws 'Zoho unavailable'; the throw is
\* caught and logged by createPaymentWithFallback
zohoMethod_handler ==
  /\ pc = "zoho"
  /\ steps' = Append(steps, [step |-> "zoho", ok |-> FALSE])
  /\ pc' = "fallback"
  /\ UNCHANGED <<args, local, orders, result>>
  /\ AltUnchanged

\* createPaymentWithFallback falls back to the email method
createPaymentWithFallback ==
  /\ pc = "fallback"
  /\ pc' = "email"
  /\ UNCHANGED <<args, local, orders, result, steps>>
  /\ AltUnchanged

\* A channel as it would be if the Order were inserted without a signed-in user
Channel_NoAuthCheck(gateway) ==
  /\ \E user \in {session, "none"}, dbOk \in BOOLEAN :
       LET amounts == alternativeAmounts(args.totalPrice, args.currency)
           order == [id |-> Len(orders) + 1,
                     client_id |-> user,
                     service_id |-> args.serviceIdentifier,
                     package_type |-> args.packageType,
                     amount_usd |-> amounts.usd,
                     amount_inr |-> amounts.inr,
                     amount_aud |-> amounts.aud,
                     currency |-> args.currency,
                     status |-> "pending",
                     payment_gateway |-> gateway,
                     zoho_invoice_id |-> NoId,
                     zoho_customer_id |-> NoId]
       IN  /\ local' = [local EXCEPT !.user = user]
           /\ IF FALSE
                THEN /\ result' = [kind |-> "error", code |-> "Authentication required",
                                   retryable |-> FALSE]
                     /\ steps' = Append(steps, [step |-> gateway, ok |-> FALSE])
                     /\ pc' = "failed"
                     /\ orders' = orders
                ELSE IF dbOk /\ validate_order_data(order)
                THEN /\ orders' = Append(orders, order)
                     /\ result' = [kind |-> "url", channel |-> gateway,
                                   order_id |-> order.id]
                     /\ steps' = Append(steps, [step |-> gateway, ok |-> TRUE])
                     /\ pc' = "done"
                ELSE /\ result' = [kind |-> "error", code |-> "insert", retryable |-> FALSE]
                     /\ steps' = Append(steps, [step |-> gateway, ok |-> FALSE])
                     /\ pc' = "failed"
                     /\ orders' = orders
  /\ UNCHANGED args
  /\ AltUnchanged

\* A channel: getUser, insert of the Order, the URL with the id of the Order
Channel(gateway) ==
  /\ \E user \in {session, "none"}, dbOk \in BOOLEAN :
       LET amounts == alternativeAmounts(args.totalPrice, args.currency)
           order == [id |-> Len(orders) + 1,
                     client_id |-> user,
                     service_id |-> args.serviceIdentifier,
                     package_type |-> args.packageType,
                     amount_usd |-> amounts.usd,
                     amount_inr |-> amounts.inr,
                     amount_aud |-> amounts.aud,
                     currency |-> args.currency,
                     status |-> "pending",
                     payment_gateway |-> gateway,
                     zoho_invoice_id |-> NoId,
                     zoho_customer_id |-> NoId]
       IN  /\ local' = [local EXCEPT !.user = user]
           /\ IF user = "none"
                THEN /\ result' = [kind |-> "error", code |-> "Authentication required",
                                   retryable |-> FALSE]
                     /\ steps' = Append(steps, [step |-> gateway, ok |-> FALSE])
                     /\ pc' = "failed"
                     /\ orders' = orders
                ELSE IF dbOk /\ validate_order_data(order)
                THEN /\ orders' = Append(orders, order)
                     /\ result' = [kind |-> "url", channel |-> gateway,
                                   order_id |-> order.id]
                     /\ steps' = Append(steps, [step |-> gateway, ok |-> TRUE])
                     /\ pc' = "done"
                ELSE /\ result' = [kind |-> "error", code |-> "insert", retryable |-> FALSE]
                     /\ steps' = Append(steps, [step |-> gateway, ok |-> FALSE])
                     /\ pc' = "failed"
                     /\ orders' = orders
  /\ UNCHANGED args
  /\ AltUnchanged

createEmailPayment ==
  /\ pc = "email"
  /\ Channel("email")

createBankTransferPayment ==
  /\ pc = "bank_transfer"
  /\ Channel("bank_transfer")

NextAlt ==
  \/ CallAlternative
  \/ getAvailablePaymentMethods
  \/ zohoMethod_handler
  \/ createPaymentWithFallback
  \/ createEmailPayment
  \/ createBankTransferPayment

SpecAlt == InitAlt /\ [][NextAlt]_vars

\* The caller invokes EnhancedPaymentService.createDirectPayment
CallDirect ==
  /\ pc = "idle"
  /\ \E sid \in ServiceIds, pkg \in PackageTypes, amount \in Amounts,
        cur \in Currencies :
       args' = [serviceIdentifier |-> sid, packageType |-> pkg, totalPrice |-> amount,
                currency |-> cur, quantity |-> 1]
  /\ pc' = "direct"
  /\ UNCHANGED <<local, orders, result, steps>>
  /\ AltUnchanged

\* createDirectPayment: getUser, insert of the Order tagged direct, the id of
\* the Order with a mailto URL; the same statements as the two channels
createDirectPayment ==
  /\ pc = "direct"
  /\ Channel("direct")

\* One call of any of the entry points that write an Order
NextCore ==
  \/ Next
  \/ NextAlt
  \/ CallDirect
  \/ createDirectPayment

SpecCore == Init /\ [][NextCore]_vars

\* ------------------------------------------------------------------------
\* The health snapshot: EnhancedPaymentService.performSystemHealthCheck and
\* runFullTest of scripts/test-payment-flow.js
\* ------------------------------------------------------------------------
\* What the three checks can meet: the services query answering, answering
\* with an error, or throwing; the invoicing probe healthy, unhealthy or
\* throwing; the catalog loaded with some rows, with none, or not loaded
CheckOutcomes ==
  [database : {"ok", "error", "throws"},
   zoho : {"healthy", "unhealthy", "throws"},
   services : {"rows", "oneRow", "empty", "throws"}]

NoSnapshot == [kind |-> "health", database |-> FALSE, zoho |-> FALSE,
               services |-> FALSE, overall |-> FALSE]

InitHealth ==
  /\ pc = "idle"
  /\ session = "none"
  /\ args \in CheckOutcomes
  /\ attempt = 0
  /\ zattempt = 0
  /\ lastErr = NoErr
  /\ local = NoLocal
  /\ orders = << >>
  /\ audit = << >>
  /\ zinvoices = << >>
  /\ result = NoResult
  /\ steps = << >>
  /\ zlog = << >>
  /\ hist = [posts |-> 0, auditWrites |-> 0, tierMissing |-> FALSE]
  /\ ZohoIdle
  /\ secrets = SecretNames
  /\ LoggerIdle

HealthUnchanged ==
  /\ UNCHANGED <<zvars, lvars>>
  /\ UNCHANGED <<session, args, attempt, zattempt, lastErr, local, orders, audit,
                 zinvoices, zlog, hist>>

\* A check ran: its flag is set, and an issue is noted when it is false
Checked(check, flag) ==
  /\ result' = [result EXCEPT ![check] = flag]
  /\ steps' = IF flag THEN steps ELSE Append(steps, [step |-> check, ok |-> FALSE])

\* The call: the three flags start false, the issues empty
performSystemHealthCheck ==
  /\ pc = "idle"
  /\ result' = NoSnapshot
  /\ steps' = << >>
  /\ pc' = "database"
  /\ HealthUnchanged

\* Test database: database = !error, and false when the query throws
TestDatabase ==
  /\ pc = "database"
  /\ Checked("database", args.database = "ok")
  /\ pc' = "zoho"
  /\ HealthUnchanged

\* Test Zoho: zoho = zohoHealth.healthy, and false when the probe throws
TestZoho ==
  /\ pc = "zoho"
  /\ Checked("zoho", args.zoho = "healthy")
  /\ pc' = "services"
  /\ HealthUnchanged

\* Test services: services = servicesList.length > 0, false when loading throws
TestServices ==
  /\ pc = "services"
  /\ Checked("services", args.services \in {"rows", "oneRow"})
  /\ pc' = "overall"
  /\ HealthUnchanged

\* The snapshot as it would be if the invoicing check gated overall
ReturnSnapshot_ZohoGates ==
  /\ pc = "overall"
  /\ result' = [result EXCEPT !.overall = result.database /\ result.services /\ result.zoho]
  /\ pc' = "done"
  /\ steps' = steps
  /\ HealthUnchanged

\* overall = database && services (overallHealth in runFullTest), and the
\* snapshot is returned
ReturnSnapshot ==
  /\ pc = "overall"
  /\ result' = [result EXCEPT !.overall = result.database /\ result.services]
  /\ pc' = "done"
  /\ steps' = steps
  /\ HealthUnchanged

NextHealth ==
  \/ performSystemHealthCheck
  \/ TestDatabase
  \/ TestZoho
  \/ TestServices
  \/ ReturnSnapshot

SpecHealth == InitHealth /\ [][NextHealth]_vars

\* ------------------------------------------------------------------------
\* resolveServiceWithFallback, query by query
\* ------------------------------------------------------------------------
\* Identifiers: ids of rows, a well-formed id of no row, parts of a name and
\* of a category, a text that contains a name, a text that matches nothing
ResolverInputs ==
  Identifiers \cup { <<"U", "2">>, <<"U", "9">>, <<"m", "l">>, <<"e", "m", "x">> }

\* The rows each strategy can match
byId(identifier) == {i \in ServiceIdx : Services[i].id = identifier}

byName(identifier) == {i \in ServiceIdx : Contains(Services[i].name, identifier)}

byCategory(identifier) == {i \in ServiceIdx : Contains(Services[i].category, identifier)}

byFuzzy(identifier) ==
  {i \in ServiceIdx : \/ Contains(Services[i].name, identifier)
                      \/ Contains(identifier, Services[i].name)}

\* What a query can give: one of the matching rows; no data, because no row
\* matches ("none") or because the query answered with an error, which is not
\* looked at ("error"); or a throw
QueryAnswers(matching) ==
  {[kind |-> "data", row |-> i] : i \in matching} \cup
  (IF matching = {} THEN {[kind |-> "none", row |-> 0]} ELSE {}) \cup
  {[kind |-> "error", row |-> 0], [kind |-> "throws", row |-> 0]}

InitResolve ==
  /\ pc = "idle"
  /\ session = "none"
  /\ args = NoArgs
  /\ attempt = 0
  /\ zattempt = 0
  /\ lastErr = NoErr
  /\ local = NoLocal
  /\ orders = << >>
  /\ audit = << >>
  /\ zinvoices = << >>
  /\ result = NoResult
  /\ steps = << >>
  /\ zlog = << >>
  /\ hist = [posts |-> 0, auditWrites |-> 0, tierMissing |-> FALSE]
  /\ ZohoIdle
  /\ secrets = SecretNames
  /\ LoggerIdle

ResolveUnchanged ==
  /\ UNCHANGED <<zvars, lvars>>
  /\ UNCHANGED <<session, attempt, zattempt, local, orders, audit, zinvoices, zlog, hist>>

\* The resolver is called with an identifier
CallResolver ==
  /\ pc = "idle"
  /\ \E identifier \in ResolverInputs :
       args' = [NoArgs EXCEPT !.serviceIdentifier = identifier]
  /\ pc' = "uuid"
  /\ UNCHANGED <<lastErr, result, steps>>
  /\ ResolveUnchanged

\* One strategy: the query is noted with what it gave; a row found is
\* returned (its id; the identifier itself for strategy 1), no data leads to
\* the next strategy or, after the last one, to null; a throw lands in the
\* catch block, which returns null
Strategy(stage, answer, next) ==
  /\ steps' = Append(steps, [step |-> stage, ok |-> answer.kind = "data",
                             answer |-> answer.kind])
  /\ CASE answer.kind = "data" ->
            /\ result' = [kind |-> "resolved", id |-> Services[answer.row].id]
            /\ pc' = "done"
            /\ lastErr' = lastErr
       [] answer.kind = "throws" ->
            /\ result' = [kind |-> "resolved", id |-> NoMatch]
            /\ pc' = "done"
            /\ lastErr' = PaymentError("thrown", FALSE)
       [] OTHER ->
            /\ result' = IF next = "done" THEN [kind |-> "resolved", id |-> NoMatch]
                         ELSE result
            /\ pc' = next
            /\ lastErr' = lastErr

\* Strategy 1: only for an identifier the UUID pattern accepts
StrategyUuid ==
  /\ pc = "uuid"
  /\ IF uuidRegexTest(args.serviceIdentifier)
       THEN \E answer \in QueryAnswers(byId(args.serviceIdentifier)) :
              Strategy("uuid", answer, "name")
       ELSE /\ pc' = "name"
            /\ UNCHANGED <<lastErr, result, steps>>
  /\ args' = args
  /\ ResolveUnchanged

\* Strategy 2: ilike on the name, limit 1
StrategyName ==
  /\ pc = "name"
  /\ \E answer \in QueryAnswers(byName(args.serviceIdentifier)) :
       Strategy("name", answer, "category")
  /\ args' = args
  /\ ResolveUnchanged

\* Strategy 3: ilike on the category, limit 1
StrategyCategory ==
  /\ pc = "category"
  /\ \E answer \in QueryAnswers(byCategory(args.serviceIdentifier)) :
       Strategy("category", answer, "fuzzy")
  /\ args' = args
  /\ ResolveUnchanged

\* Strategy 4: up to 10 rows, the first whose name contains the identifier or
\* is contained in it
StrategyFuzzy ==
  /\ pc = "fuzzy"
  /\ \E answer \in QueryAnswers(byFuzzy(args.serviceIdentifier)) :
       Strategy("fuzzy", answer, "done")
  /\ args' = args
  /\ ResolveUnchanged

NextResolve ==
  \/ CallResolver
  \/ StrategyUuid
  \/ StrategyName
  \/ StrategyCategory
  \/ StrategyFuzzy

SpecResolve == InitResolve /\ [][NextResolve]_vars

\* ------------------------------------------------------------------------
\* SpecAmounts: calculateCurrencyAmounts under the fallback rates, applied to
\* an amount, and then to what it gave in a second currency
\* ------------------------------------------------------------------------

\* The amount, out of the three of calculateCurrencyAmounts, in one currency
amountIn(amounts, currency) ==
  CASE currency = "USD" -> amounts.usd
    [] currency = "INR" -> amounts.inr
    [] OTHER -> amounts.aud

\* An amount of one currency in another, at the fallback rates
convert(amount, from, to) == amountIn(calculateCurrencyAmounts(amount, from), to)

NoConversion == [kind |-> "none", to |-> "", there |-> 0, back |-> 0]

InitAmounts ==
  /\ pc = "idle"
  /\ session = "none"
  /\ \E amount \in 1..MaxCents, currency \in Currencies :
       args = [NoArgs EXCEPT !.totalPrice = amount, !.currency = currency]
  /\ attempt = 0
  /\ zattempt = 0
  /\ lastErr = NoErr
  /\ local = NoLocal
  /\ orders = << >>
  /\ audit = << >>
  /\ zinvoices = << >>
  /\ result = NoConversion
  /\ steps = << >>
  /\ zlog = << >>
  /\ hist = [posts |-> 0, auditWrites |-> 0, tierMissing |-> FALSE]
  /\ ZohoIdle
  /\ secrets = SecretNames
  /\ LoggerIdle

AmountsUnchanged ==
  /\ UNCHANGED <<zvars, lvars>>
  /\ UNCHANGED <<session, args, attempt, zattempt, lastErr, orders, audit, zinvoices,
                 steps, zlog, hist>>

\* The amount is converted: the three amounts, and the one of a second currency
ConvertThere ==
  /\ pc = "idle"
  /\ local' = [local EXCEPT !.amounts =
                 calculateCurrencyAmounts(args.totalPrice, args.currency)]
  /\ \E to \in Currencies :
       result' = [kind |-> "there", to |-> to,
                  there |-> convert(args.totalPrice, args.currency, to), back |-> 0]
  /\ pc' = "there"
  /\ AmountsUnchanged

\* What the conversion gave is converted back to the first currency
ConvertBack ==
  /\ pc = "there"
  /\ local' = [local EXCEPT !.amounts = calculateCurrencyAmounts(result.there, result.to)]
  /\ result' = [result EXCEPT !.kind = "back",
                              !.back = convert(result.there, result.to, args.currency)]
  /\ pc' = "back"
  /\ AmountsUnchanged

NextAmounts ==
  \/ ConvertThere
  \/ ConvertBack

SpecAmounts == InitAmounts /\ [][NextAmounts]_vars

\* ------------------------------------------------------------------------
\* SpecLogger: ProductionLogger, its in-memory buffer and the error logs it
\* keeps in localStorage
\* ------------------------------------------------------------------------
Levels == {"info", "warn", "error", "debug"}

\* Array.prototype.slice(-n): the last n elements
slice(s, n) == IF Len(s) > n THEN SubSeq(s, Len(s) - n + 1, Len(s)) ELSE s

\* The entry of a log call; the timestamp tells the entries apart
LogEntry(level, message) ==
  [timestamp |-> Len(logged) + 1, level |-> level, message |-> message]

\* log, keeping the oldest entries when the buffer is full
log_KeepsOldest(level, message) ==
  /\ Len(logged) < MaxLogged
  /\ LET logEntry == LogEntry(level, message)
         pushed == Append(logs, logEntry)
     IN  /\ logs' = IF Len(pushed) > maxLogs THEN SubSeq(pushed, 1, maxLogs) ELSE pushed
         /\ logged' = Append(logged, logEntry)
         /\ \E stored \in BOOLEAN :
              errorLogs' = IF level = "error" /\ stored
                             THEN slice(Append(errorLogs, logEntry), maxErrorLogs)
                             ELSE errorLogs

\* log: push the entry, trim the buffer to its last maxLogs entries; an error
\* is also stored in localStorage, a failure of which is caught
log(level, message) ==
  /\ Len(logged) < MaxLogged
  /\ LET logEntry == LogEntry(level, message)
         pushed == Append(logs, logEntry)
     IN  /\ logs' = IF Len(pushed) > maxLogs THEN slice(pushed, maxLogs) ELSE pushed
         /\ logged' = Append(logged, logEntry)
         /\ \E stored \in BOOLEAN :
              errorLogs' = IF level = "error" /\ stored
                             THEN slice(Append(errorLogs, logEntry), maxErrorLogs)
                             ELSE errorLogs

\* The constructor has run: initializeLogger has logged 'Logger initialized'
InitLogger ==
  /\ PaymentIdle
  /\ session = "none"
  /\ ZohoIdle
  /\ secrets = SecretNames
  /\ logs = << [timestamp |-> 1, level |-> "info", message |-> "initialized"] >>
  /\ errorLogs = << >>
  /\ logged = logs

\* A caller logs a message
Log ==
  /\ \E level \in Levels : log(level, "message")
  /\ UNCHANGED <<pvars, zvars>>

\* clearLogs: empty the buffer, remove the item of localStorage, then log
\* 'Logs cleared'
clearLogs ==
  /\ Len(logged) < MaxLogged
  /\ LET logEntry == LogEntry("info", "cleared")
     IN  /\ logs' = << logEntry >>
         /\ logged' = Append(logged, logEntry)
  /\ errorLogs' = << >>
  /\ UNCHANGED <<pvars, zvars>>

NextLogger ==
  \/ Log
  \/ clearLogs

SpecLogger == InitLogger /\ [][NextLogger]_vars

\* ------------------------------------------------------------------------
\* Properties of createPaymentIntent
\* ------------------------------------------------------------------------
InZoho == pc \in {"health", "post", "zcaught"}

\* C1: within one createPaymentIntent call at most one Order is inserted, and
\* every invoicing attempt of the call works on that one Order.
C1_RetriesReuseTheOrder ==
  /\ Len(orders) <= 1
  /\ InZoho => local.order = 1

\* C2: when the first two invoicing attempts of a call fail with a retryable
\* error and the third succeeds, the call returns a PaymentIntent (it is past
\* the invoicing step and never fails), exactly one Order was inserted, and the
\* intent returned is the one invoice of the successful attempt.
C2_ThirdAttemptSucceeds ==
  zlog = <<"retryable", "retryable", "ok">> =>
    /\ pc \in {"update", "done"}
    /\ zattempt = 3
    /\ Len(orders) = 1 /\ local.order = 1
    /\ hist.posts <= 3
    /\ local.zohoResult.invoice_id = Len(zinvoices)
    /\ zinvoices[Len(zinvoices)].order = local.order
    /\ pc = "done" => /\ result.kind = "intent"
                      /\ result.invoice_id = local.zohoResult.invoice_id

C2_Witness ==
  /\ pc = "done"
  /\ zlog = <<"retryable", "retryable", "ok">>
  /\ result.kind = "intent"

\* C3: after an invoicing attempt failed with a non-retryable error no further
\* invoicing attempt is made, and the failed call has written exactly one
\* Audit Log Entry with success = FALSE.
C3_NoRetryAfterFatal ==
  /\ \A i \in 1..Len(zlog) : zlog[i] = "fatal" => i = Len(zlog)
  /\ (pc = "failed" /\ zlog # << >> /\ zlog[Len(zlog)] = "fatal") =>
       (Len(audit) = 1 /\ ~audit[1].success)

\* C4: one createPaymentIntent call sends at most 3 invoice-creation requests.
C4_AtMostThreeRequests == hist.posts <= MAX_RETRIES

\* C5: an identity whose email is not verified never gets an Order, and the
\* call that saw it fails with EMAIL_NOT_VERIFIED in its first attempt.
C5_UnverifiedFails ==
  /\ session = "unverified" => (Len(orders) = 0 /\ pc # "done" /\ hist.posts = 0)
  /\ local.user = "unverified" =>
       /\ pc \in {"caught", "logfail", "failed"}
       /\ attempt = 1
       /\ lastErr.code = "EMAIL_NOT_VERIFIED"
       /\ pc = "failed" => (result.kind = "error" /\ result.code = "EMAIL_NOT_VERIFIED")

C5_Witness ==
  /\ pc = "failed"
  /\ local.user = "unverified"
  /\ result.code = "EMAIL_NOT_VERIFIED"
  /\ Len(orders) = 0

\* C6: a call whose tier check found the package type absent from the pricing
\* of the resolved service fails with INVALID_PACKAGE and has inserted no Order.
C6_InvalidPackage ==
  hist.tierMissing =>
    /\ Len(orders) = 0
    /\ pc # "done"
    /\ pc = "failed" => result.code = "INVALID_PACKAGE"

StepOrder ==
  <<"auth", "verified", "resolve", "service", "client", "amounts", "order",
    "invoice", "update">>

StepCodes(step) ==
  CASE step = "auth" -> {"AUTH_REQUIRED"}
    [] step = "verified" -> {"EMAIL_NOT_VERIFIED"}
    [] step = "resolve" -> {"SERVICE_NOT_FOUND"}
    [] step = "service" -> {"SERVICE_DATA_MISSING", "INVALID_PACKAGE"}
    [] step = "client" -> {"CLIENT_PROFILE_ERROR", "CLIENT_PROFILE_MISSING"}
    [] step = "order" -> {"ORDER_CREATION_FAILED"}
    [] step = "invoice" -> {"ZOHO_UNAVAILABLE", "ZOHO_AUTH_FAILED", "ZOHO_API_ERROR", ""}
    [] OTHER -> {}

TierPresent ==
  /\ local.service # 0
  /\ args.packageType \in DOMAIN Services[local.service].pricing

\* C7: in every attempt the steps run in the documented order, nothing runs
\* after a step that failed, the error raised is the one of the failing step
\* (decided by what that step found), and an Order is inserted, and an
\* invoicing request made, only after every earlier step passed.
C7_StepsInOrder ==
  /\ \A i \in 1..Len(steps) : /\ i <= Len(StepOrder)
                              /\ steps[i].step = StepOrder[i]
                              /\ i < Len(steps) => steps[i].ok
  /\ pc = "caught" =>
       /\ ~steps[Len(steps)].ok
       /\ lastErr.code \in StepCodes(steps[Len(steps)].step)
       /\ lastErr.code = "AUTH_REQUIRED" <=> local.user = "none"
       /\ lastErr.code = "EMAIL_NOT_VERIFIED" <=> local.user = "unverified"
       /\ lastErr.code = "SERVICE_NOT_FOUND" <=>
            (local.user = "verified" /\ local.serviceId = NoMatch)
       /\ lastErr.code = "INVALID_PACKAGE" <=>
            (local.serviceId # NoMatch /\ local.service # 0 /\ ~TierPresent)
       /\ lastErr.code = "ORDER_CREATION_FAILED" =>
            (TierPresent /\ local.order = NoId)
  /\ pc \notin {"idle", "done"} =>
       IF local.order = NoId
         THEN Len(orders) < attempt /\ ~InZoho
         ELSE /\ local.order = Len(orders)
              /\ Len(steps) >= 7
              /\ \A i \in 1..7 : steps[i].ok
              /\ local.user = "verified" /\ TierPresent
  /\ InZoho => Len(steps) = 7

C7_Witness ==
  /\ pc = "caught"
  /\ steps[Len(steps)].step = "client"
  /\ attempt = 2
  /\ Len(orders) = 1

\* C8: when the call has returned a PaymentIntent, the Order of the call stores
\* the invoice id and the customer id of that intent.
C8_OrderStoresIds ==
  pc = "done" =>
    /\ orders[local.order].zoho_invoice_id = result.invoice_id
    /\ orders[local.order].zoho_customer_id = result.customer_id

\* C9 (as stated): a failed call has written exactly one Audit Log Entry with
\* success = FALSE.
C9_OneAuditEntryPerFailure ==
  pc = "failed" => (Len(audit) = 1 /\ ~audit[1].success /\ result.kind = "error")

\* C9 (amended): a failed call has issued exactly one audit insert, which
\* appended one entry with success = FALSE unless the insert itself failed,
\* and raised a typed error; no audit insert is issued before the call fails.
C9_OneAuditWritePerFailure ==
  /\ pc = "failed" =>
       /\ hist.auditWrites = 1
       /\ Len(audit) <= 1
       /\ result.kind = "error"
       /\ result.code = (IF lastErr.code = "" THEN "PAYMENT_ERROR" ELSE lastErr.code)
  /\ pc # "failed" => (hist.auditWrites = 0 /\ audit = << >>)
  /\ \A i \in 1..Len(audit) : ~audit[i].success /\ audit[i].error_message = lastErr

C9_Witness ==
  /\ pc = "failed"
  /\ attempt = 3
  /\ Len(audit) = 1
  /\ hist.auditWrites = 1

\* The identifier matches a row of the catalog under one of the strategies
SomeRowMatches(identifier) ==
  resolveServiceWithFallback(identifier, [i \in 1..4 |-> TRUE]) # {NoMatch}

\* C20: a database or provider call that failed is never followed by a
\* success of the call, nor reported as another condition: an intent is
\* returned only when the update of the Order took effect, and an attempt fails
\* with SERVICE_NOT_FOUND only for an identifier that matches no row.
C20_FailuresSurface ==
  /\ pc = "done" => orders[local.order].zoho_invoice_id # NoId
  /\ (pc = "caught" /\ lastErr.code = "SERVICE_NOT_FOUND") =>
       ~SomeRowMatches(args.serviceIdentifier)

\* The documented error codes
Taxonomy ==
  {"AUTH_REQUIRED", "EMAIL_NOT_VERIFIED", "SERVICE_NOT_FOUND", "SERVICE_DATA_MISSING",
   "INVALID_PACKAGE", "CLIENT_PROFILE_ERROR", "CLIENT_PROFILE_MISSING",
   "ORDER_CREATION_FAILED", "ZOHO_UNAVAILABLE", "ZOHO_CONFIG_MISSING",
   "ZOHO_AUTH_FAILED", "ZOHO_API_ERROR", "ZOHO_INTEGRATION_FAILED"}

\* C21 (as stated): the error raised to the caller has a documented code and
\* the retryable flag of the classification of the error caught.
C21_CodeInTaxonomy ==
  pc = "failed" =>
    /\ result.kind = "error"
    /\ result.code \in Taxonomy
    /\ result.retryable = isRetryableError(lastErr)

\* C21 (amended): the error raised to the caller has the code of the error
\* caught, a documented one, or PAYMENT_ERROR when the error caught has no
\* code (the request to the entrypoint itself failing); its retryable flag is
\* the classification of the error caught.
C21_CodeInTaxonomyOrGeneric ==
  pc = "failed" =>
    /\ result.kind = "error"
    /\ result.code \in Taxonomy \cup {"PAYMENT_ERROR"}
    /\ lastErr.code # "" => (result.code = lastErr.code /\ result.code \in Taxonomy)
    /\ lastErr.code = "" <=> result.code = "PAYMENT_ERROR"
    /\ result.retryable = isRetryableError(lastErr)

\* A call failed for good on an error without code, classified retryable
C21_Witness ==
  /\ pc = "failed"
  /\ result.code = "PAYMENT_ERROR"
  /\ result.retryable
  /\ attempt = MAX_RETRIES

\* C22: an error caught is followed by another attempt - of the whole call or
\* of the invoicing step - only if it is classified retryable, and, while
\* attempts remain, whenever it is; an error not classified retryable ends the
\* call.
C22_RetriedIffRetryable ==
  [][/\ (pc = "caught" /\ pc' = "auth") => isRetryableError(lastErr)
     /\ (pc = "zcaught" /\ pc' = "health") => isRetryableError(lastErr)
     /\ (pc = "caught" /\ attempt < MAX_RETRIES /\ isRetryableError(lastErr)) =>
          pc' = "auth"
     /\ (pc = "zcaught" /\ zattempt < MAX_RETRIES /\ isRetryableError(lastErr)) =>
          pc' = "health"]_vars

\* C23: an invoicing request is made only for an Order whose row is there; an
\* Order carries an invoice id and a customer id only once an invoice was
\* created for it, and then the id of that invoice; the rows of orders are
\* never removed nor renumbered.
C23_OrderLifecycle ==
  /\ [](/\ \A k \in 1..Len(zinvoices) : zinvoices[k].order \in 1..Len(orders)
        /\ pc \in {"health", "post", "zcaught", "update"} =>
             local.order \in 1..Len(orders)
        /\ hist.posts > 0 => Len(orders) > 0
        /\ \A i \in 1..Len(orders) :
             /\ orders[i].id = i
             /\ orders[i].zoho_invoice_id = NoId <=> orders[i].zoho_customer_id = NoId
             /\ orders[i].zoho_invoice_id # NoId =>
                  /\ orders[i].zoho_invoice_id \in 1..Len(zinvoices)
                  /\ zinvoices[orders[i].zoho_invoice_id].order = i)
  /\ [][/\ Len(orders') >= Len(orders)
        /\ \A i \in 1..Len(orders) :
             /\ orders'[i].id = orders[i].id
             /\ orders'[i].client_id = orders[i].client_id
             /\ orders[i].zoho_invoice_id # NoId => orders'[i] = orders[i]]_vars

\* The second Order of a call carries the ids of its invoice, the first,
\* left by the attempt that failed, none
C23_Witness ==
  /\ pc = "done"
  /\ Len(orders) = 2
  /\ orders[2].zoho_invoice_id # NoId
  /\ orders[1].zoho_invoice_id = NoId

\* C25: an order in INR stores, as amount_inr, its amount_usd multiplied by
\* 83.25 and rounded to the cent.
C25_InrIsUsdTimesRate ==
  \A i \in 1..Len(orders) :
    orders[i].currency = "INR" =>
      orders[i].amount_inr = Round(orders[i].amount_usd * 8325, 100)

\* The catalog price of the tier of an order
CatalogPrice(order) ==
  LET s == CHOOSE s \in ServiceIdx : Services[s].id = order.service_id
  IN  Services[s].pricing[order.package_type]

\* The call asks, in USD, for the catalog price times the quantity
CatalogTotalInUsd ==
  /\ args.currency = "USD"
  /\ \A i \in 1..Len(orders) : args.totalPrice = CatalogPrice(orders[i]) * args.quantity

\* C26: for a USD request whose total is the catalog price p times the
\* quantity q, every invoice asked of the provider has one line item, with
\* quantity q, item_total the USD amount of the order, which is p * q, rate
\* item_total / q, a description that names q, and the currency code USD.
C26_InvoiceLineItem ==
  CatalogTotalInUsd =>
    \A k \in 1..Len(zinvoices) :
      LET invoice == zinvoices[k]
          order == orders[invoice.order]
          item == invoice.line_items[1]
      IN  /\ Len(invoice.line_items) = 1
          /\ item.quantity = args.quantity
          /\ item.item_total = order.amount_usd
          /\ order.amount_usd = CatalogPrice(order) * args.quantity
          /\ item.rate.num = item.item_total
          /\ item.rate.den = args.quantity
          /\ item.rate.num = CatalogPrice(order) * item.rate.den
          /\ item.description.quantity = args.quantity
          /\ invoice.currency_code = "USD"

\* Two units at 4.00 USD: one line item of 8.00 at the rate 8.00 / 2
C26_Witness ==
  /\ pc = "done"
  /\ CatalogTotalInUsd
  /\ args.quantity = 2
  /\ Len(zinvoices) = 1
  /\ zinvoices[1].line_items[1].item_total = 800
  /\ zinvoices[1].line_items[1].rate = [num |-> 800, den |-> 2]

\* C27: a call that has returned, with a PaymentIntent or with an error, has
\* left at least one entry in the audit log; the entries of the log are never
\* changed nor removed.
AuditAppendOnly ==
  /\ Len(audit') >= Len(audit)
  /\ \A i \in 1..Len(audit) : audit'[i] = audit[i]

C27_AuditOnBothPaths ==
  /\ [](pc \in {"done", "failed"} => Len(audit) >= 1)
  /\ [][AuditAppendOnly]_vars

\* The invoices at the provider made for one order
InvoicesOf(i) == {k \in 1..Len(zinvoices) : zinvoices[k].order = i}

\* C28: the provider holds at most one invoice for every order.
C28_OneInvoicePerOrder ==
  \A i \in 1..Len(orders) : Cardinality(InvoicesOf(i)) <= 1

\* An order as it was inserted: pending, without the ids of the provider
AsInserted(order) ==
  /\ order.status = "pending"
  /\ order.payment_gateway = "zoho"
  /\ order.zoho_invoice_id = NoId
  /\ order.zoho_customer_id = NoId

\* C29: after a call that failed every order is as it was inserted; no step
\* but the update of step 8 changes a row, and that one only the row of the
\* order of the attempt.
C29_FailedCallLeavesOrders ==
  /\ [](pc \in {"caught", "zcaught", "logfail", "failed"} =>
          \A i \in 1..Len(orders) : AsInserted(orders[i]))
  /\ [][\A i \in 1..Len(orders) :
          (pc # "update" \/ i # local.order) => orders'[i] = orders[i]]_vars

\* The call failed at the invoicing step of its last attempt: three orders
\* are there, as inserted, and the provider holds an invoice for the last
C29_Witness ==
  /\ pc = "failed"
  /\ Len(orders) = MAX_RETRIES
  /\ \A i \in 1..Len(orders) : AsInserted(orders[i])
  /\ InvoicesOf(Len(orders)) # {}

\* C30: every order, and every line item of an invoice, carries the catalog
\* price of the tier, in the currency of the order, times the quantity.
C30_AmountIsCatalogPrice ==
  /\ \A i \in 1..Len(orders) :
       unitPrice(orders[i]) =
         convert(CatalogPrice(orders[i]), "USD", orders[i].currency) * args.quantity
  /\ \A k \in 1..Len(zinvoices) :
       zinvoices[k].line_items[1].item_total =
         convert(CatalogPrice(orders[zinvoices[k].order]), "USD", zinvoices[k].currency_code)
           * args.quantity

\* The codes of the precondition failures
PreconditionCodes ==
  {"AUTH_REQUIRED", "EMAIL_NOT_VERIFIED", "SERVICE_NOT_FOUND", "INVALID_PACKAGE",
   "CLIENT_PROFILE_MISSING"}

\* C31: an attempt that failed on a precondition is the last attempt of the
\* call: the catch block goes on to report the failure, whatever the message
\* of the error embeds.
C31_PreconditionFailsOnce ==
  [][(pc = "caught" /\ lastErr.code \in PreconditionCodes) =>
       (pc' = "logfail" /\ attempt' = attempt)]_vars

\* C32: with a secret absent, a call that got to the invoicing step does not
\* return a PaymentIntent, and the error it raises is ZOHO_CONFIG_MISSING.
C32_MissingSecretIsConfigMissing ==
  (secrets # SecretNames /\ zlog # << >>) =>
    /\ pc # "done"
    /\ pc = "failed" => result.code = "ZOHO_CONFIG_MISSING"

C39_CallTerminates ==
  /\ [](/\ pc \notin {"afterLoop", "afterZohoLoop"}
        /\ attempt <= MAX_RETRIES
        /\ zattempt <= MAX_RETRIES
        /\ hist.posts <= MAX_RETRIES * MAX_RETRIES
        /\ pc = "done" => result.kind = "intent"
        /\ pc = "failed" => (result.kind = "error" /\ result.code # ""))
  /\ <>(pc \in {"done", "failed"})

\* The call failed after the last invoicing attempt of its last attempt
C39_Witness ==
  /\ pc = "failed"
  /\ attempt = MAX_RETRIES
  /\ zattempt = MAX_RETRIES
  /\ hist.posts = MAX_RETRIES * MAX_RETRIES

\* ------------------------------------------------------------------------
\* Properties of the invoicing entrypoint
\* ------------------------------------------------------------------------
\* The step of the invoice creation a provider call belongs to
Stage(call) ==
  CASE call = "token" -> 1
    [] call \in {"findByEmail", "createContact", "findByName"} -> 2
    [] call = "createInvoice" -> 3
    [] call = "markSent" -> 4
    [] call = "getInvoice" -> 5
    [] OTHER -> 0

StagesOf(q) == {Stage(q.trace[i].call) : i \in 1..Len(q.trace)}

\* The step of the i-th call of q succeeded: the call did, and for the customer
\* step a customer with a contact_id was obtained
StageSucceeded(q, i) ==
  IF Stage(q.trace[i].call) = 2
    THEN q.customer # NoId /\ q.customer \in {contacts[j].contact_id : j \in 1..Len(contacts)}
    ELSE q.trace[i].ok

\* C10: in a POST request the provider calls are made in the order token
\* exchange, customer find-or-create, invoice creation, mark-sent, payment-URL
\* fetch; a step is entered only from the step before it and only when that one
\* succeeded (the invoice is created for a non-empty customer id); the success
\* response comes only after all five; a step that fails (token exchange,
\* customer, invoice creation, mark-sent signalling an error) ends the request
\* with the failure response, no later call being made.
C10_ProviderCallsInOrder ==
  /\ \A r \in RequestIds :
       LET q == requests[r]
           n == Len(q.trace)
       IN  q.method = "POST" =>
             /\ \A i \in 1..n : Stage(q.trace[i].call) \in 1..5
             /\ n > 0 => q.trace[1].call = "token"
             /\ \A i \in 1..(n - 1) :
                  LET a == Stage(q.trace[i].call)
                      b == Stage(q.trace[i + 1].call)
                  IN  /\ b \in {a, a + 1}
                      /\ b = a => a = 2
                      /\ b = a + 1 => StageSucceeded(q, i)
                      /\ a # 2 => q.trace[i].ok
             /\ q.response.kind = "success" =>
                  /\ StagesOf(q) = 1..5
                  /\ \A i \in 1..n : Stage(q.trace[i].call) # 2 => q.trace[i].ok
                  /\ q.customer # NoId /\ q.invoice # NoId
                  /\ invoices[q.invoice].status = "sent"
             /\ (n > 0 /\ Stage(q.trace[n].call) \in {1, 3, 4} /\ ~q.trace[n].ok) =>
                  q.pc = "done" /\ q.response.kind = "failure"
             /\ (q.pc = "done" /\ q.customer = NoId) =>
                  q.response.kind = "failure" /\ StagesOf(q) \subseteq {1, 2}
             /\ q.pc = "done" => q.response.kind \in {"success", "failure"}
             /\ q.response.kind = "failure" => q.pc = "done" /\ q.response.status = 500
  /\ \A k \in 1..Len(invoices) :
       /\ invoices[k].customer_id # NoId
       /\ \E r \in RequestIds :
            requests[r].invoice = k /\ requests[r].customer = invoices[k].customer_id

\* A POST request answered with success after the five steps, its customer
\* found by name once the creation was rejected as already existing
C10_Witness ==
  \E r \in RequestIds :
    LET q == requests[r]
    IN  /\ q.method = "POST"
        /\ q.response.kind = "success"
        /\ StagesOf(q) = 1..5
        /\ \E i \in 1..Len(q.trace) : q.trace[i].call = "findByName"
        /\ q.payment_url = "fallback"

\* C11: when one of the four secrets is absent, every request taken has failed
\* with the configuration error and no provider call was made for it; the
\* configuration error is raised on receipt only, never once a provider call
\* of the request has been made, and never when the four secrets are there.
C11_NoCallWithoutSecrets ==
  /\ secrets # SecretNames =>
       /\ \A r \in RequestIds :
            requests[r].pc # "idle" =>
              /\ requests[r].pc = "done"
              /\ requests[r].response.kind = "failure"
              /\ requests[r].response.error = "Missing Zoho configuration"
              /\ requests[r].trace = << >>
       /\ contacts \in InitialContacts
       /\ invoices = << >>
  /\ \A r \in RequestIds :
       requests[r].response.error = "Missing Zoho configuration" =>
         secrets # SecretNames /\ requests[r].trace = << >>

\* One secret is absent, and a GET and a POST request were answered
C11_Witness ==
  /\ secrets # SecretNames
  /\ \E r1, r2 \in RequestIds :
       /\ requests[r1].method = "GET" /\ requests[r1].response.kind = "failure"
       /\ requests[r2].method = "POST" /\ requests[r2].response.kind = "failure"

\* C12: a create-customer request is sent only right after a lookup by email
\* of the same request that returned no customer (so never once the lookup
\* found one, and never before any lookup).
C12_LookupBeforeCreate ==
  \A r \in RequestIds :
    \A i \in 1..Len(requests[r].trace) :
      requests[r].trace[i].call = "createContact" =>
        /\ i > 1
        /\ requests[r].trace[i - 1].call = "findByEmail"
        /\ ~requests[r].trace[i - 1].ok

\* The calls of q made after its create-customer request
AfterCreate(q) ==
  IF \E k \in 1..Len(q.trace) : q.trace[k].call = "createContact"
    THEN LET i == CHOOSE k \in 1..Len(q.trace) : q.trace[k].call = "createContact"
         IN  SubSeq(q.trace, i + 1, Len(q.trace))
    ELSE << >>

SearchFailed(q, k, call) ==
  Len(AfterCreate(q)) >= k /\ AfterCreate(q)[k].call = call /\ ~AfterCreate(q)[k].ok

\* C13: after a creation rejected as already existing the customer is searched
\* by email, then - only when that search gave no customer - by name; the first
\* customer found is the one returned, no further search being made; the
\* creation error is thrown only when both searches gave no customer.  A
\* creation rejected for another reason fails at once, without a search.
C13_RecoveryFromDuplicate ==
  \A r \in RequestIds :
    LET q == requests[r]
        after == AfterCreate(q)
    IN  /\ q.rejection = "other" =>
             /\ after = << >>
             /\ q.pc = "done" /\ q.response.kind = "failure"
             /\ q.response.error = "Customer creation failed"
        /\ q.rejection = "exists" =>
             /\ after = << >> <=> q.pc = "refindByEmail"
             /\ after # << >> => after[1].call = "findByEmail"
             /\ (after # << >> /\ after[1].ok) =>
                  /\ \A k \in 1..Len(after) : after[k].call # "findByName"
                  /\ q.response.error # "Customer creation failed"
                  /\ q.customer # NoId =>
                       q.customer \in {contacts[j].contact_id : j \in ByEmail(ReqEmail)}
             /\ SearchFailed(q, 1, "findByEmail") =>
                  /\ Len(after) = 1 <=> q.pc = "findByName"
                  /\ Len(after) > 1 => after[2].call = "findByName"
             /\ (Len(after) > 1 /\ after[2].ok) =>
                  /\ q.response.error # "Customer creation failed"
                  /\ q.customer # NoId =>
                       q.customer \in {contacts[j].contact_id : j \in ByName(ReqName)}
             /\ q.response.error = "Customer creation failed" <=>
                  (SearchFailed(q, 1, "findByEmail") /\ SearchFailed(q, 2, "findByName"))
             /\ SearchFailed(q, 2, "findByName") => Len(after) = 2 /\ q.pc = "done"

\* The creation was rejected as already existing, the search by email gave
\* nothing, the search by name gave the customer the invoice was made for
C13_Witness ==
  \E r \in RequestIds :
    /\ requests[r].rejection = "exists"
    /\ SearchFailed(requests[r], 1, "findByEmail")
    /\ Len(AfterCreate(requests[r])) > 1
    /\ AfterCreate(requests[r])[2].call = "findByName"
    /\ AfterCreate(requests[r])[2].ok
    /\ requests[r].response.kind = "success"

\* The provider accepted the mark-sent request of q
MarkedSent(q) ==
  \E i \in 1..Len(q.trace) : q.trace[i].call = "markSent" /\ q.trace[i].ok

\* C14: a request whose invoice was created and marked sent ends with the
\* success response and a payment URL - the portal URL of the invoice or the
\* URL built from the organization id and the invoice id - whatever the
\* detail fetch gave.
C14_SentInvoiceSucceeds ==
  \A r \in RequestIds :
    (MarkedSent(requests[r]) /\ requests[r].pc = "done") =>
      /\ requests[r].response.kind = "success"
      /\ requests[r].payment_url \in {"portal", "fallback"}

\* Something failed in the handling of q: a secret absent, a provider call
\* rejected, a body that does not pass the checks, a method not supported
SomethingFailed(q) ==
  \/ secrets # SecretNames
  \/ \E i \in 1..Len(q.trace) :
       q.trace[i].call \in {"token", "test", "createInvoice", "markSent"} /\ ~q.trace[i].ok
  \/ q.method \notin {"GET", "POST"}
  \/ BodyError(q.body) # ""
  \/ q.response.error = "Customer creation failed"
  \/ q.response.error = "Invalid customer data received from Zoho"

Responded(q) == q.response.kind # "none"

\* C15: a request the handler is done with has one response, success = true
\* (status 200) or success = false with status 500; it is the latter whenever
\* something failed; and a response given is never followed by another one.
C15_OneResponse ==
  /\ [](\A r \in RequestIds :
          LET q == requests[r]
          IN  /\ q.pc = "done" <=> Responded(q)
              /\ Responded(q) =>
                   \/ q.response = [kind |-> "success", status |-> 200, error |-> ""]
                   \/ q.response.kind = "failure" /\ q.response.status = 500
                        /\ q.response.error # ""
              /\ (Responded(q) /\ SomethingFailed(q)) => q.response.kind = "failure"
              /\ q.response.kind = "success" => q.method \in {"GET", "POST"})
  /\ [][\A r \in RequestIds :
          Responded(requests[r]) => requests'[r] = requests[r]]_vars

\* A GET answered with success and a POST answered with the failure of a body
\* without currency
C15_Witness ==
  \E r1, r2 \in RequestIds :
    /\ requests[r1].method = "GET" /\ requests[r1].response.kind = "success"
    /\ requests[r2].method = "POST" /\ requests[r2].body = "noCurrency"
    /\ requests[r2].response.status = 500

\* The provider held no contact before the first request: it holds none, or
\* a request has created one (a creation is accepted for a new name only)
Created(r) ==
  \E k \in 1..Len(requests[r].trace) :
    requests[r].trace[k] = [call |-> "createContact", ok |-> TRUE]

StartedWithoutContact == contacts = << >> \/ \E r \in RequestIds : Created(r)

\* C35: when the provider held no contact for the customer, however the
\* requests interleave it holds at most one afterwards, made by one request
\* only, and every request that got a customer got that one.
C35_OneCustomerForBoth ==
  StartedWithoutContact =>
    /\ Len(contacts) <= 1
    /\ \A r, s \in RequestIds : (Created(r) /\ Created(s)) => r = s
    /\ \A r \in RequestIds :
         requests[r].customer # NoId =>
           (contacts # << >> /\ requests[r].customer = contacts[1].contact_id)

\* Both requests searched before either created; one created the customer,
\* the other was rejected and found it by its second search
C35_Witness ==
  /\ Len(contacts) = 1
  /\ \E r, s \in RequestIds :
       /\ r # s
       /\ Created(r)
       /\ requests[s].rejection = "exists"
       /\ \E k \in 1..Len(requests[s].trace) :
            requests[s].trace[k] = [call |-> "findByEmail", ok |-> TRUE]
       /\ requests[r].customer = contacts[1].contact_id
       /\ requests[s].customer = contacts[1].contact_id

\* ------------------------------------------------------------------------
\* Properties of AlternativePaymentService
\* ------------------------------------------------------------------------
Probed(healthy) == steps # << >> /\ steps[1] = [step |-> "probe", ok |-> healthy]

\* C16: a createPaymentWithFallback call whose probe reported healthy returns
\* a payment made through the invoicing provider, and one whose probe reported
\* unhealthy returns one made through the email channel.
C16_HealthyUsesProvider ==
  pc = "done" =>
    /\ Probed(TRUE) => result.channel = "zoho"
    /\ Probed(FALSE) => result.channel = "email"

\* The Orders made by the two channels
ChannelOrders ==
  {i \in 1..Len(orders) : orders[i].payment_gateway \in {"email", "bank_transfer"}}

\* C17: a channel call that returned has inserted exactly one Order - pending,
\* tagged with the channel, owned by the signed-in identity - and returns the
\* URL of the channel with the id of that Order; a call that raised (nobody
\* signed in, or the insert failing) returns no URL and has inserted no Order.
C17_ChannelInsertsOneOrder ==
  /\ pc = "done" =>
       /\ result.kind = "url"
       /\ result.channel \in {"email", "bank_transfer"}
       /\ result.channel = steps[Len(steps)].step
       /\ ChannelOrders = {result.order_id}
       /\ result.order_id = Len(orders)
       /\ orders[result.order_id].id = result.order_id
       /\ orders[result.order_id].status = "pending"
       /\ orders[result.order_id].payment_gateway = result.channel
       /\ session # "none"
       /\ orders[result.order_id].client_id = session
  /\ pc = "failed" => result.kind = "error" /\ ChannelOrders = {}
  /\ pc # "done" => ChannelOrders = {}
  /\ (pc \in {"done", "failed"} /\ local.user = "none") => pc = "failed"

\* A bank-transfer call that returned its URL, next to an earlier Order
C17_Witness ==
  /\ pc = "done"
  /\ result.channel = "bank_transfer"
  /\ result.order_id = 2

\* ------------------------------------------------------------------------
\* Properties of the health snapshot
\* ------------------------------------------------------------------------
\* C18: in the snapshot returned overall is true exactly when the database
\* check succeeded and the catalog has a row, whatever the invoicing check
\* gave; each flag is true exactly when its check succeeded, a check that
\* threw counting as failed.
C18_OverallIgnoresInvoicing ==
  pc = "done" =>
    /\ result.database <=> args.database = "ok"
    /\ result.zoho <=> args.zoho = "healthy"
    /\ result.services <=> args.services \in {"rows", "oneRow"}
    /\ result.overall <=> (args.database = "ok" /\ args.services \in {"rows", "oneRow"})
    /\ Len(steps) = Cardinality({c \in {"database", "zoho", "services"} : ~result[c]})

\* A snapshot with overall true although the invoicing check threw
C18_Witness ==
  /\ pc = "done"
  /\ args.zoho = "throws"
  /\ result.overall
  /\ ~result.zoho

\* ------------------------------------------------------------------------
\* Properties of the resolver
\* ------------------------------------------------------------------------
StrategyOrder == <<"uuid", "name", "category", "fuzzy">>

StrategyNo(stage) == CHOOSE k \in 1..4 : StrategyOrder[k] = stage

\* The strategies are queried in their order, each only after all the
\* strategies queried before it gave no row, and the row returned is one the
\* last strategy queried matches
QueriedInOrder ==
  /\ \A i \in 1..(Len(steps) - 1) :
       /\ ~steps[i].ok
       /\ StrategyNo(steps[i + 1].step) = StrategyNo(steps[i].step) + 1
  /\ steps # << >> =>
       steps[1].step = IF uuidRegexTest(args.serviceIdentifier) THEN "uuid" ELSE "name"
  /\ (pc = "done" /\ result.id # NoMatch) =>
       /\ steps[Len(steps)].ok
       /\ LET stage == steps[Len(steps)].step
              matching == CASE stage = "uuid" -> byId(args.serviceIdentifier)
                            [] stage = "name" -> byName(args.serviceIdentifier)
                            [] stage = "category" -> byCategory(args.serviceIdentifier)
                            [] OTHER -> byFuzzy(args.serviceIdentifier)
          IN  result.id \in {Services[i].id : i \in matching}
       /\ steps[1].ok => result.id = args.serviceIdentifier \/ steps[1].step # "uuid"

\* C19: the strategies are queried in the order UUID, name, category, fuzzy,
\* each only after the earlier ones gave no match; the result is the match of
\* the first strategy that gave one; and null is returned only once the
\* fuzzy strategy too has been queried and gave no match.
C19_StagesInOrder ==
  /\ QueriedInOrder
  /\ (pc = "done" /\ result.id = NoMatch) =>
       /\ steps[Len(steps)].step = "fuzzy"
       /\ \A i \in 1..Len(steps) : ~steps[i].ok

\* ------------------------------------------------------------------------
\* Properties of the currency amounts
\* ------------------------------------------------------------------------

Distance(x, y) == IF x >= y THEN x - y ELSE y - x

\* C24 as stated: an amount converted to a second currency and back, each
\* result rounded to the cent, is within one cent of the amount
C24_RoundTripWithinCent ==
  pc = "back" => Distance(result.back, args.totalPrice) <= 1

\* How far, in cents, the way there and back may land from the amount
RoundTripTolerance(from, to) ==
  CASE from = "INR" /\ to = "USD" -> 42
    [] from = "INR" /\ to = "AUD" -> 28
    [] from = "AUD" /\ to = "USD" -> 1
    [] OTHER -> 0

\* C24: the way there and back gives the amount itself when the second
\* currency is the first one or has the smaller unit (USD to INR or AUD, AUD to
\* INR); it is within 0.01 from AUD by USD, within 0.28 from INR by AUD and
\* within 0.42 from INR by USD.  A conversion to the same currency is exact.
C24_RoundTripWithinTolerance ==
  /\ pc = "there" /\ result.to = args.currency => result.there = args.totalPrice
  /\ pc = "back" =>
       Distance(result.back, args.totalPrice) <= RoundTripTolerance(args.currency, result.to)

\* 1.25 INR is 0.02 USD, which is 1.67 INR
C24_Witness ==
  /\ pc = "back"
  /\ args.currency = "INR" /\ args.totalPrice = 125
  /\ result.to = "USD" /\ result.there = 2
  /\ result.back = 167

\* ------------------------------------------------------------------------
\* Properties of the entry points that write an Order
\* ------------------------------------------------------------------------

\* The Orders written by the channels and by createDirectPayment
DegradedOrders ==
  {i \in 1..Len(orders) : orders[i].payment_gateway \in {"email", "bank_transfer", "direct"}}

\* C33: an Order written by a channel or by createDirectPayment stores the
\* three amounts that step 5 of createPaymentIntent computes, under the
\* fallback rates, for the same amount and currency.
C33_ChannelAmountsAsStep5 ==
  \A i \in DegradedOrders :
    LET amounts == calculateCurrencyAmounts(args.totalPrice, args.currency)
    IN  /\ orders[i].amount_usd = amounts.usd
        /\ orders[i].amount_inr = amounts.inr
        /\ orders[i].amount_aud = amounts.aud

\* C36: every Order belongs to an identity whose email is verified, and no
\* Order is written while the signed-in identity is unverified.
C36_OrdersOfVerifiedOnly ==
  /\ \A i \in 1..Len(orders) : orders[i].client_id = "verified"
  /\ session = "unverified" => orders = << >>

\* ------------------------------------------------------------------------
\* Properties of the logger
\* ------------------------------------------------------------------------

\* The entries logged since the buffer was last emptied
SinceCleared ==
  LET clears == {k \in 1..Len(logged) : logged[k].message = "cleared"}
      from == IF clears = {} THEN 1
              ELSE CHOOSE k \in clears : \A j \in clears : j <= k
  IN  SubSeq(logged, from, Len(logged))

\* C37: the buffer holds at most maxLogs entries, and they are the last
\* entries logged, in the order of logging: all of those logged since the
\* buffer was last emptied when they are at most maxLogs, the last maxLogs of
\* them otherwise.
C37_BufferKeepsMostRecent ==
  /\ Len(logs) <= maxLogs
  /\ logs = slice(SinceCleared, maxLogs)
  /\ logs = SubSeq(logged, Len(logged) - Len(logs) + 1, Len(logged))

\* The buffer is full and the oldest entry logged since it was emptied is gone
C37_Witness ==
  /\ Len(logs) = maxLogs
  /\ Len(SinceCleared) > maxLogs
  /\ logs[1].timestamp > SinceCleared[1].timestamp
  /\ \E k \in 1..Len(logged) : logged[k].message = "cleared"

\* C38: every Order stored has a positive amount in the column of its
\* currency and a tier that is a key of the pricing of its service, whichever
\* entry point wrote it; a call whose amount is zero has stored no Order.
C38_StoredOrdersAreValid ==
  /\ \A i \in 1..Len(orders) :
       /\ unitPrice(orders[i]) > 0
       /\ \E s \in ServiceIdx :
            /\ Services[s].id = orders[i].service_id
            /\ orders[i].package_type \in DOMAIN Services[s].pricing
  /\ (args.totalPrice = 0 /\ pc \in {"email", "bank_transfer", "direct", "done", "failed"}) =>
       (orders = << >> /\ pc # "done")

\* A bank-transfer call for an amount of zero by a signed-in user: the insert
\* was rejected, the call raised its error and no Order is stored
C38_Witness ==
  /\ pc = "failed"
  /\ args.totalPrice = 0
  /\ local.user = "verified"
  /\ steps = << [step |-> "bank_transfer", ok |-> FALSE] >>
  /\ result.code = "insert"
  /\ orders = << >>

============================================================================
